---- MODULE Spec2Model ----
(***************************************************************************)
(* Model of the caching, admission-control and orchestration layer of the  *)
(* resume-analysis backend:                                                *)
(*   backend/app/cache_manager.py    LRUCache                              *)
(*   backend/app/rate_limiter.py     rate_limit, request_history           *)
(*   backend/app/batch_processor.py  BatchProcessor, DebouncedProcessor,   *)
(*                                   ParallelFixProcessor                  *)
(* Each component has its own next-state relation and specification; the   *)
(* variables of the other components stay unchanged under it.              *)
(***************************************************************************)
EXTENDS Integers, Sequences, FiniteSets, TLC

VARIABLES
    \* ---- LRUCache (one instance) ----
    cache,        \* OrderedDict: sequence of [key, value, ts], head = least recently used
    hits,         \* self.hits
    misses,       \* self.misses
    lock,         \* self.lock: the thread holding it, or NoThread
    frame,        \* per thread: the call it is executing and its position in the body
    ret,          \* the call that completed in the last step and what it returned
    now,          \* time.time(), in ticks
    setOrder,     \* history: keys of the completed set calls, each once, most recent last
    onlySets,     \* history: no get, delete or clear has been called so far
    gets,         \* history: get calls completed since the last clear
    lock2,        \* self.lock of a second LRUCache instance: the thread holding it
    \* ---- rate limiter ----
    request_history,  \* dict: client ip -> deque of admission timestamps
    req,              \* per request slot: where its wrapper coroutine stands
    outcome,          \* what the wrapper decided, when the last step ran it
    admitted,         \* history: per client, the latest admitted timestamps
    usedEndpoints,    \* history: per client, the endpoints it has requested
    \* ---- DebouncedProcessor ----
    pending_tasks,    \* dict: key -> the task registered for it (0: no entry)
    results_cache,    \* dict: key -> cached result (0: no entry)
    call,             \* per process() call: arguments, position, outcome
    task,             \* per debounced_task: its state
    thread,           \* per asyncio.to_thread(processor): the worker thread
    ncalls,           \* process() calls made so far
    \* ---- BatchProcessor.process_batch ----
    batch,            \* the call: its arguments, position and results
    item,             \* per item: queued in the executor, running, finished
    \* ---- ParallelFixProcessor.process_fixes_parallel ----
    fx,               \* the call: fixes, position, current_resume, returned document
    fixState,         \* per fix: todo, running, done or failed
    fixIn,            \* per fix: the document passed to _apply_fix
    fixOut,           \* per fix: the document _apply_fix returned
    \* ---- the documents of process_fixes_parallel as Python objects ----
    cp,               \* the call: position, number of independent fixes, returned document
    topObj,           \* the top-level dicts: 0 is current_resume, i the copy passed to fix i
    dictObj,          \* the nested dict objects (contact), by object id
    listObj,          \* the list objects (skills), by object id
    cpState,          \* per independent fix: running, done or failed, and its edits so far
    isolated,         \* history: per fix, its document had it worked on a private deep copy
    \* ---- ParallelFixProcessor._merge_resume_changes ----
    mg,               \* the call: base_resume, updated_resume, what it returned
    \* ---- CacheManager, cached, invalidate_cache, the clear_cache endpoint ----
    mc,               \* per cache name: the LRUCache instance (cache, hits, misses)
    wr,               \* per thread: the cached wrapper call it is executing
    clr,              \* the clear_cache request: position, caches still to clear
    mret,             \* the call that completed in the last step and its outcome
    mcalls,           \* calls made so far
    \* ---- BatchProcessor.process_in_batches ----
    pib,              \* the call: items, batches, position, results, processor calls
    \* ---- BatchAIProcessor ----
    pending_requests, \* self.pending_requests: the request objects, by add_request call
    processing,       \* self.processing
    aiReq,            \* per add_request call: its request object and its position
    \* ---- one LRUCache instance, its calls taken as single steps ----
    lru,              \* the instance: cache, hits, misses
    touched,          \* history: the stored keys in the order of their latest set or hit
    lruRet            \* the call made in the last step and what it did

cacheVars == <<cache, hits, misses, lock, frame, ret, setOrder, onlySets, gets, lock2>>

rateVars == <<request_history, req, outcome, admitted, usedEndpoints>>

debounceVars == <<pending_tasks, results_cache, call, task, thread, ncalls>>

batchVars == <<batch, item>>

fixVars == <<fx, fixState, fixIn, fixOut>>

objVars == <<cp, topObj, dictObj, listObj, cpState, isolated>>

mergeVars == <<mg>>

managerVars == <<mc, wr, clr, mret, mcalls>>

chunkVars == <<pib>>

aiVars == <<pending_requests, processing, aiReq>>

lruVars == <<lru, touched, lruRet>>

\* what the actions of one component leave unchanged
otherThanCache == <<rateVars, debounceVars, batchVars, fixVars, objVars, mergeVars, managerVars, chunkVars, aiVars, lruVars>>

otherThanRate == <<cacheVars, debounceVars, batchVars, fixVars, objVars, mergeVars, managerVars, chunkVars, aiVars, lruVars>>

otherThanDebounce == <<cacheVars, rateVars, now, batchVars, fixVars, objVars, mergeVars, managerVars, chunkVars, aiVars, lruVars>>

otherThanBatch == <<cacheVars, rateVars, now, debounceVars, fixVars, objVars, mergeVars, managerVars, chunkVars, aiVars, lruVars>>

otherThanFix == <<cacheVars, rateVars, now, debounceVars, batchVars, objVars, mergeVars, managerVars, chunkVars, aiVars, lruVars>>

otherThanObj == <<cacheVars, rateVars, now, debounceVars, batchVars, fixVars, mergeVars, managerVars, chunkVars, aiVars, lruVars>>

otherThanMerge == <<cacheVars, rateVars, now, debounceVars, batchVars, fixVars, objVars, managerVars, chunkVars, aiVars, lruVars>>

otherThanManager == <<cacheVars, rateVars, now, debounceVars, batchVars, fixVars, objVars, mergeVars, chunkVars, aiVars, lruVars>>

otherThanChunk == <<cacheVars, rateVars, now, debounceVars, batchVars, fixVars, objVars, mergeVars, managerVars, aiVars, lruVars>>

otherThanAI == <<cacheVars, rateVars, now, debounceVars, batchVars, fixVars, objVars, mergeVars, managerVars, chunkVars, lruVars>>

otherThanLru == <<cacheVars, rateVars, debounceVars, batchVars, fixVars, objVars, mergeVars, managerVars, chunkVars, aiVars>>

vars == <<cache, hits, misses, lock, frame, ret, now, setOrder, onlySets, gets, lock2,
          request_history, req, outcome, admitted, usedEndpoints,
          pending_tasks, results_cache, call, task, thread, ncalls,
          batch, item, fx, fixState, fixIn, fixOut,
          cp, topObj, dictObj, listObj, cpState, isolated, mg,
          mc, wr, clr, mret, mcalls,
          pib,
          pending_requests, processing, aiReq,
          lru, touched, lruRet>>

(***************************************************************************)
(* Bounds of the model                                                     *)
(***************************************************************************)
MaxSize == 2          \* LRUCache.max_size of the modelled instance
TTL == 1              \* LRUCache.ttl of the modelled instance, in ticks
MaxTime == TTL + 1    \* the clock stops advancing here
MaxGets == 2          \* get calls counted by hits + misses

Keys == 1..(MaxSize + 1)
Values == {1, 2}
None == 0
Threads == {"t1", "t2"}
NoThread == "none"

(***************************************************************************)
(* Sequence helpers                                                        *)
(***************************************************************************)
Range(s) == {s[i] : i \in 1..Len(s)}

Min(a, b) == IF a < b THEN a ELSE b

LastN(s, n) == SubSeq(s, Len(s) - Min(n, Len(s)) + 1, Len(s))

(***************************************************************************)
(* OrderedDict operations used by LRUCache                                 *)
(***************************************************************************)
CacheKeys(c) == {c[i].key : i \in 1..Len(c)}

KeyOrder(c) == [i \in 1..Len(c) |-> c[i].key]

Entry(c, k) == c[CHOOSE i \in 1..Len(c) : c[i].key = k]

DelKey(c, k) == SelectSeq(c, LAMBDA e : e.key # k)

\* an assignment that leaves the timestamp of an existing key as it was
AssignKeepTimestamp(c, k, v, t) ==
    IF k \in CacheKeys(c)
    THEN [i \in 1..Len(c) |-> IF c[i].key = k THEN [c[i] EXCEPT !.value = v] ELSE c[i]]
    ELSE Append(c, [key |-> k, value |-> v, ts |-> t])

\* cache[key] = (value, ts): an existing key keeps its position, a new one goes last
Assign(c, k, v, t) ==
    IF k \in CacheKeys(c)
    THEN [i \in 1..Len(c) |-> IF c[i].key = k THEN [key |-> k, value |-> v, ts |-> t] ELSE c[i]]
    ELSE Append(c, [key |-> k, value |-> v, ts |-> t])

MoveToEnd(c, k) == Append(DelKey(c, k), Entry(c, k))

\* get, line 61, forgetting the move
TouchNot(c, k) == c

\* get, line 61: self.cache.move_to_end(key)
Touch(c, k) == MoveToEnd(c, k)

\* popitem(last=False)
PopLast(c) == SubSeq(c, 1, Len(c) - 1)

PopFirst(c) == Tail(c)

\* set, line 75: the eviction test
AtCapacityOff(c, k) == k \notin CacheKeys(c) /\ Len(c) > MaxSize

AtCapacity(c, k) == k \notin CacheKeys(c) /\ Len(c) >= MaxSize

\* get, line 55: the expiry test
\* an expiry test that lets an entry live one tick too long
ExpiredLate(ts, t) == TTL # 0 /\ (t - ts) > TTL + 1

Expired(ts, t) == TTL # 0 /\ (t - ts) > TTL

\* threading.Lock: acquire succeeds only when nobody holds it
NoLock(l) == TRUE

CanAcquire(l) == l = NoThread

IdleFrame == [op |-> "none", key |-> 0, value |-> 0, pc |-> 0]

\* a call that has just entered its `with self.lock:` block
Entered(op, k, v) == [op |-> op, key |-> k, value |-> v, pc |-> 1]

NoRet == [op |-> "none", key |-> 0, val |-> 0, expired |-> FALSE]

\* what a completed call returned (expired: the get found its entry past the ttl)
Returned(op, k, v) == [op |-> op, key |-> k, val |-> v, expired |-> FALSE]

\* self.hits += 1, self.misses += 1
BumpNot(counter) == counter

Bump(counter) == counter + 1

(***************************************************************************)
(* Rate limiter: parameters and the pure parts of rate_limit.wrapper       *)
(***************************************************************************)
TicksPerSecond == 2   \* time.time() is a float: the clock has half seconds
WindowSeconds == 1    \* window_seconds of every decorated endpoint
RateMaxTime == 4      \* the clock stops advancing here

WindowTicks == WindowSeconds * TicksPerSecond

Clients == {"ip1", "ip2"}
Endpoints == {"chat", "autofix"}
Slots == {"r1", "r2"}

\* @rate_limit(max_requests=..): two endpoints with different limits
MaxRequests == [chat |-> 2, autofix |-> 1]

\* the largest limit of an endpoint
MaxLimit ==
    CHOOSE m \in {MaxRequests[e] : e \in Endpoints} :
        \A e \in Endpoints : MaxRequests[e] <= m

IdleSlot == [pc |-> "idle", client |-> "", endpoint |-> ""]

NoOutcome == [client |-> "", endpoint |-> "", admitted |-> FALSE,
              retry_after |-> 0, raced |-> FALSE]

\* a queue for each client and endpoint
HistoryKeyPerEndpoint(c, e) == <<c, e>>

\* lines 57-61: the queue is looked up by the client address alone, whatever
\* endpoint the decorator wraps
HistoryKey(c, e) == c

\* request_history[client_ip] of a defaultdict(deque)
History(h, c) == IF c \in DOMAIN h THEN h[c] ELSE <<>>

\* lines 64-65: while history and history[0] < current_time - window: popleft()
RECURSIVE PruneInclusive(_, _, _)
RECURSIVE Prune(_, _, _)
PruneInclusive(h, t, w) ==
    IF h # <<>> /\ Head(h) <= t - w THEN PruneInclusive(Tail(h), t, w) ELSE h

Prune(h, t, w) ==
    IF h # <<>> /\ Head(h) < t - w THEN Prune(Tail(h), t, w) ELSE h

\* line 68, negated: the request is admitted when len(history) < max_requests
AdmitsOffByOne(h, m) == Len(h) <= m

Admits(h, m) == Len(h) < m

\* int(x) for x = n / d: truncation towards zero
IntTrunc(n, d) == IF n >= 0 THEN n \div d ELSE -((-n) \div d)

\* line 71 without its final + 1
RetryAfterNoCarry(t, oldest, w) == IntTrunc(w - (t - oldest), TicksPerSecond)

\* line 71: int(window_seconds - (current_time - oldest_request)) + 1
RetryAfter(t, oldest, w) == IntTrunc(w - (t - oldest), TicksPerSecond) + 1

\* history.appendleft(current_time)
HistoryAppendLeft(h, t) == <<t>> \o h

\* line 80: history.append(current_time)
HistoryAppend(h, t) == Append(h, t)

\* max_age_seconds of a cleanup_old_entries call: below, at and above the window
MaxAges == {0, WindowSeconds, WindowSeconds + 1}

\* a cutoff that ignores max_age_seconds
CutoffTimeNow(t, max_age) == t

\* line 98: cutoff_time = current_time - max_age_seconds
CutoffTime(t, max_age) == t - max_age * TicksPerSecond

\* lines 104-105: while history and history[0] < cutoff_time: popleft()
RECURSIVE DropOld(_, _)
DropOld(h, cutoff) ==
    IF h # <<>> /\ Head(h) < cutoff THEN DropOld(Tail(h), cutoff) ELSE h

\* the latest MaxLimit + 1 admitted timestamps of a client
Remember(log, t) == LastN(Append(log, t), MaxLimit + 1)

(***************************************************************************)
(* DebouncedProcessor: parameters                                          *)
(***************************************************************************)
MaxCalls == 3         \* process() calls in one run of the model

CallIds == 1..MaxCalls
DKeys == {"k1", "k2"}

\* the arguments of clear_cache: a key of a process call, the empty string, or
\* None (written "None")
ClearArgs == DKeys \cup {"", "None"}

\* line 188, `if key:` is true of every str but the empty one
KeyGiven(key) == key \notin {"", "None"}

\* a call not made yet.  seen: the unfinished task registered for the key when
\* the call was made (0: none); awaits: the task the call awaits (0: none)
NoCall == [pc |-> "new", key |-> "", force |-> FALSE, result |-> 0,
           seen |-> 0, awaits |-> 0]

\* an unfinished task: asleep in the debounce delay or awaiting the processor
Live(t) == t # 0 /\ task[t] \in {"sleeping", "running"}

\* line 155 without the cache test, and without the test of force
CachedNever(rc, k, force) == FALSE

CachedWhateverForce(rc, k, force) == rc[k] # 0

\* line 155: key in self.results_cache and not force
Cached(rc, k, force) == rc[k] # 0 /\ ~force

\* Task.cancel(): an unfinished task is cancelled, a finished one is left alone
Cancel(tk, t) == IF Live(t) THEN [tk EXCEPT ![t] = "cancelled"] ELSE tk

(***************************************************************************)
(* BatchProcessor.process_batch: parameters and pure parts.  The processor *)
(* is the caller's function: for item i it returns the value i, or raises  *)
(* an Exception when i is one of the failing items.                        *)
(***************************************************************************)
MaxItems == 3         \* len(items) of a call
MaxWorkers == 2       \* BatchProcessor.max_workers of the modelled instance

Items == 1..MaxItems

\* `finished` lists the items in the order their processors finished
NoBatch == [pc |-> "idle", n |-> 0, fails |-> {}, parallel |-> FALSE,
            i |-> 0, results |-> <<>>, finished |-> <<>>]

\* results in the order the futures complete
FuturesAsCompleted(ids, finished) == finished

\* line 58: asyncio.gather returns the results in the order of the futures it
\* was given, which is the order of the items (lines 54-57)
FuturesInOrder(ids, finished) == ids

\* what the future of item i holds once its processor has run
Outcome(i, fails) == [exc |-> i \in fails, val |-> i]

\* lines 61-66: drop the results that are exceptions, keep the others in order
RECURSIVE KeepAll(_)
RECURSIVE FilterResults(_)
KeepAll(outs) ==
    IF outs = <<>> THEN <<>> ELSE <<Head(outs).val>> \o KeepAll(Tail(outs))

FilterResults(outs) ==
    IF outs = <<>> THEN <<>>
    ELSE IF Head(outs).exc THEN FilterResults(Tail(outs))
    ELSE <<Head(outs).val>> \o FilterResults(Tail(outs))

\* an executor that starts every submitted item at once
FreeWorkerAlways(it) == TRUE

\* line 29, ThreadPoolExecutor(max_workers=max_workers): a worker is free
FreeWorker(it) == Cardinality({j \in Items : it[j] = "running"}) < MaxWorkers

\* lines 73-77: one turn of the sequential loop on item b.i
SeqTurn(b) ==
    IF b.i \in b.fails
    THEN [b EXCEPT !.i = @ + 1]
    ELSE [b EXCEPT !.i = @ + 1, !.results = Append(@, Outcome(b.i, b.fails).val)]

(***************************************************************************)
(* ParallelFixProcessor: documents, fixes and the merge                    *)
(***************************************************************************)
MaxFixes == 3         \* len(fixes) of a call

FixIds == 1..MaxFixes

\* a document value: a scalar, a list, or a nested mapping
Scalar(x) == [kind |-> "scalar", v |-> x]

List(xs) == [kind |-> "list", v |-> xs]

Dict(d) == [kind |-> "dict", v |-> d]

\* the resume of the model: {summary: 1, skills: [1], contact: {email: 1}}
Resume == [summary |-> Scalar(1), skills |-> List(<<1>>),
           contact |-> Dict([email |-> Scalar(1)])]

NoDoc == [nodoc |-> TRUE]

\* fix.get('type', 'unknown'): 'content' stands for every type that is not
\* one of the three independent ones
FixTypes == {"content", "grammar", "keyword"}

\* line 232
IsIndependent(type) == type \in {"grammar", "keyword", "format"}

\* what the fix function behind _apply_fix does with the document it is given:
\* rewrite the summary, add a skill, add or change a nested contact field, or raise
Edits == {"summary", "skill", "contact", "raise"}

Fixes == [type : FixTypes, edit : Edits]

Put(d, k, x) == [j \in DOMAIN d \cup {k} |-> IF j = k THEN x ELSE d[j]]

ApplyEdit(d, edit) ==
    CASE edit = "summary" -> Put(d, "summary", Scalar(d["summary"].v + 1))
      [] edit = "skill" ->
            Put(d, "skills", List(Append(d["skills"].v, Len(d["skills"].v) + 1)))
      [] edit = "contact" ->
            Put(d, "contact",
                Dict(Put(d["contact"].v, "phone",
                         IF "phone" \in DOMAIN d["contact"].v
                         THEN Scalar(d["contact"].v["phone"].v + 1)
                         ELSE Scalar(1))))
      [] OTHER -> d

\* dict.copy(), line 246
Copy(d) == d

\* dict.update() in place of the deep merge: nested mappings are replaced
MergeShallow(base, updated) ==
    [k \in DOMAIN base \cup DOMAIN updated |->
        IF k \in DOMAIN updated THEN updated[k] ELSE base[k]]

\* a merge that extends a differing list instead of replacing it
MergeExtend(base, updated) ==
    [k \in DOMAIN base \cup DOMAIN updated |->
        IF k \notin DOMAIN updated THEN base[k]
        ELSE IF k \notin DOMAIN base THEN updated[k]
        ELSE IF updated[k].kind = "list" /\ base[k].kind = "list"
        THEN (IF updated[k] # base[k] THEN List(base[k].v \o updated[k].v) ELSE base[k])
        ELSE updated[k]]

\* _merge_resume_changes, lines 306-322
RECURSIVE MergeResumeChanges(_, _)
MergeResumeChanges(base, updated) ==
    [k \in DOMAIN base \cup DOMAIN updated |->
        IF k \notin DOMAIN updated THEN base[k]
        ELSE IF k \notin DOMAIN base THEN updated[k]
        ELSE IF updated[k].kind = "dict" /\ base[k].kind = "dict"
        THEN Dict(MergeResumeChanges(base[k].v, updated[k].v))
        ELSE IF updated[k].kind = "list" /\ base[k].kind = "list"
        THEN (IF updated[k] # base[k] THEN updated[k] ELSE base[k])
        ELSE updated[k]]

\* `finished` lists the independent fixes in the order they completed
NoRun == [pc |-> "idle", fixes |-> <<>>, current |-> NoDoc, returned |-> NoDoc,
          finished |-> <<>>]

(***************************************************************************)
(* ParallelFixProcessor: the documents as objects.  A document is a dict   *)
(* object whose summary is a scalar and whose contact and skills entries   *)
(* are references to a nested dict object and to a list object.            *)
(***************************************************************************)
MaxIndep == 2         \* len(independent_fixes) of a call
MaxEdits == 2         \* modifications one fix makes to its document

CopyIds == 1..MaxIndep

\* object ids: 0 is the object current_resume refers to, i one that fix i created
ObjIds == 0..MaxIndep

\* dict.copy() (lines 246, 307): a new top-level dict with the same entries, so
\* with the same references to the nested objects
ShallowCopy(t) == t

\* the value of the document whose top-level dict is t
Deref(t, dicts, lists) ==
    [summary |-> Scalar(t.summary),
     skills |-> List(lists[t.skills]),
     contact |-> Dict([email |-> Scalar(dicts[t.contact].email)])]

\* what a fix function does to the document it was given: assign a top-level
\* key, assign a key of the nested mapping, append to the list, or bind the
\* top-level key to a new list
ObjEdits == {"summary", "contact", "append", "rebind"}

NoCopy == [pc |-> "idle", n |-> 0, post |-> NoDoc, returned |-> NoDoc]

(***************************************************************************)
(* _merge_resume_changes: the documents it is called with.  A document has *)
(* some of the keys a and skills; a holds a scalar, a list or a nested     *)
(* mapping with some of the keys b and c, skills holds a scalar or a list. *)
(***************************************************************************)
MaxScalar == 2        \* the scalar values are 1..MaxScalar
MaxListLen == 2       \* the lists are [], [1], [1, 2], ...

\* the shape of a value that is not a mapping: absent, the scalar n, or the
\* list [1, ..., n]
Leaf ==
    {[kind |-> "absent", n |-> 0]}
    \cup {[kind |-> "scalar", n |-> x] : x \in 1..MaxScalar}
    \cup {[kind |-> "list", n |-> x] : x \in 0..MaxListLen}

LeafValue(sh) == IF sh.kind = "scalar" THEN Scalar(sh.n) ELSE List([j \in 1..sh.n |-> j])

IsDict == [kind |-> "dict", n |-> 0]

NoInner == [b |-> [kind |-> "absent", n |-> 0], c |-> [kind |-> "absent", n |-> 0]]

\* the shapes of the documents: inner is the nested mapping under a, if a is one
DocShapes ==
    {sh \in [a : Leaf \cup {IsDict}, inner : [b : Leaf, c : Leaf], skills : Leaf] :
        sh.a.kind # "dict" => sh.inner = NoInner}

InnerDoc(sh) == [k \in {j \in {"b", "c"} : sh[j].kind # "absent"} |-> LeafValue(sh[k])]

\* the document of a shape
MakeDoc(sh) ==
    [k \in {j \in {"a", "skills"} : sh[j].kind # "absent"} |->
        IF k = "a" /\ sh.a.kind = "dict" THEN Dict(InnerDoc(sh.inner)) ELSE LeafValue(sh[k])]

NoMerge == [pc |-> "idle", base |-> NoDoc, updated |-> NoDoc, merged |-> NoDoc,
            again |-> NoDoc]

(***************************************************************************)
(* CacheManager, the cached decorator, invalidate_cache and the            *)
(* clear_cache endpoint: parameters and pure parts.  Every LRUCache call   *)
(* runs under the lock of its instance, so a call is one step here.        *)
(***************************************************************************)
MaxMgrCalls == 3      \* wrapper, invalidate_cache and clear_cache calls in one run

\* CacheManager.__init__: the five instances, in the order clear_all clears them
CacheOrder == <<"template", "prompt", "ai_response", "pdf", "general">>

CacheNames == Range(CacheOrder)

\* cache_type arguments: the registered names, a misspelt one, the empty
\* string, and None (clear_cache called without the parameter)
TypeArgs == CacheNames \cup {"tempalte", "", "None"}

\* the arguments of a memoized call: str() drops their type
MgrArgs == {[kind |-> "int", v |-> 1], [kind |-> "str", v |-> 1], [kind |-> "int", v |-> 2]}

\* what the wrapped function returns (None is a value like the others)
FuncResults == {None, 1}

\* generate_cache_key: str(arg) of each argument, joined and hashed
GenerateCacheKey(a) == a.v

\* lines 245-254 and 288-297: the if/elif chain ends in a bare else
SelectCache(cache_type) ==
    IF cache_type = "template" THEN "template"
    ELSE IF cache_type = "prompt" THEN "prompt"
    ELSE IF cache_type = "ai_response" THEN "ai_response"
    ELSE IF cache_type = "pdf" THEN "pdf"
    ELSE "general"

\* `if cache_type:` at api.py line 479
Truthy(cache_type) == cache_type \notin {"", "None"}

\* api.py lines 503-504: `except Exception` also catches the HTTPException
\* raised at line 491 and raises HTTPException(500) in its place
Reraise(status) == 500

EmptyLru == [cache |-> <<>>, hits |-> 0, misses |-> 0]

\* LRUCache.get as one locked call: the instance afterwards and the value returned
LruGet(c, k, t) ==
    IF k \notin CacheKeys(c.cache)
    THEN [c |-> [c EXCEPT !.misses = Bump(@)], val |-> None]
    ELSE IF Expired(Entry(c.cache, k).ts, t)
    THEN [c |-> [c EXCEPT !.cache = DelKey(@, k), !.misses = Bump(@)], val |-> None]
    ELSE [c |-> [c EXCEPT !.cache = Touch(@, k), !.hits = Bump(@)],
          val |-> Entry(c.cache, k).value]

\* LRUCache.set as one locked call
LruSet(c, k, v, t) ==
    LET room == IF AtCapacity(c.cache, k) /\ c.cache # <<>>
                THEN PopFirst(c.cache) ELSE c.cache
    IN [c EXCEPT !.cache = MoveToEnd(Assign(room, k, v, t), k)]

\* LRUCache.delete as one locked call
LruDelete(c, k) == [c EXCEPT !.cache = DelKey(@, k)]

\* LRUCache.clear as one locked call
LruClear(c) == EmptyLru

NoLruRet == [op |-> "none", key |-> 0, val |-> None, evicted |-> 0]

NoWrapper == [pc |-> "idle", type |-> "", cache |-> "none", key |-> 0, result |-> None]

NoClear == [pc |-> "idle", type |-> "", todo |-> <<>>, cleared |-> {}]

NoManagerRet == [op |-> "none", type |-> "", cache |-> "none", status |-> 0,
                 val |-> None]

(***************************************************************************)
(* BatchProcessor.process_in_batches: parameters and pure parts            *)
(***************************************************************************)
MaxChunkItems == 4    \* len(items) of a call

SelfBatchSize == 2    \* BatchProcessor.batch_size of the modelled instance

\* the batch_size argument: None (0) or a positive size
BatchSizeArgs == 0..3

ItemValues == {1, 2}

\* line 100: batch_size or self.batch_size
OrDefault(batch_size, default) == IF batch_size # 0 THEN batch_size ELSE default

\* lines 101-104 keeping only the full chunks
ChunksDropTail(items, size) ==
    [j \in 1..(Len(items) \div size) |-> SubSeq(items, (j - 1) * size + 1, j * size)]

\* lines 101-104: [items[i:i + size] for i in range(0, len(items), size)]
Chunks(items, size) ==
    [j \in 1..((Len(items) + size - 1) \div size) |->
        SubSeq(items, (j - 1) * size + 1, Min(j * size, Len(items)))]

\* what the processor returns for a batch
ChunkResult(b) == [out |-> b]

NoChunked == [pc |-> "idle", items |-> <<>>, size |-> 0, batches |-> <<>>, i |-> 0,
              results |-> <<>>, calls |-> <<>>, failed |-> {}]

(***************************************************************************)
(* BatchAIProcessor.add_request: parameters and pure parts.  The calls are *)
(* numbered in the order they are made; call c owns request object c.      *)
(***************************************************************************)
MaxAiCalls == 3       \* add_request calls in one run of the model

AiCalls == 1..MaxAiCalls

RequestTypes == {"rewrite", "grammar"}

\* line 359: f"{request_type}_{len(self.pending_requests)}"
RequestId(request_type, pending) == <<request_type, Len(pending)>>

\* what the processor computes for the request of call c
ResultFor(c) == c

\* a test that ignores self.processing
CanProcessUnflagged(flag, pending) == pending # <<>>

\* line 372: if not self.processing and self.pending_requests
CanProcess(flag, pending) == ~flag /\ pending # <<>>

\* lines 393-397: the first pending request with this id, or None
FindResult(pending, reqs, id) ==
    LET found == SelectSeq(pending, LAMBDA c : reqs[c].id = id)
    IN IF found = <<>> THEN None ELSE reqs[Head(found)].result

\* lines 384-386: results[i] goes into the slot of batch[i] while i < len(results)
Distribute(reqs, b, nresults) ==
    [c \in AiCalls |->
        IF \E i \in 1..Min(Len(b), nresults) : b[i] = c
        THEN [reqs[c] EXCEPT !.result = ResultFor(c), !.sets = @ + 1]
        ELSE reqs[c]]

NoRequest == [pc |-> "new", id |-> <<"", 0>>, result |-> None, batch |-> <<>>,
              returned |-> None, sets |-> 0, batches |-> 0]

(***************************************************************************)
(* Init                                                                    *)
(***************************************************************************)
Init ==
    /\ cache = <<>>
    /\ hits = 0
    /\ misses = 0
    /\ lock = NoThread
    /\ frame = [t \in Threads |-> IdleFrame]
    /\ ret = NoRet
    /\ now = 0
    /\ setOrder = <<>>
    /\ onlySets = TRUE
    /\ gets = 0
    /\ lock2 = NoThread
    /\ request_history = <<>>
    /\ req = [r \in Slots |-> IdleSlot]
    /\ outcome = NoOutcome
    /\ admitted = [c \in Clients |-> <<>>]
    /\ usedEndpoints = [c \in Clients |-> {}]
    /\ pending_tasks = [k \in DKeys |-> 0]
    /\ results_cache = [k \in DKeys |-> 0]
    /\ call = [c \in CallIds |-> NoCall]
    /\ task = [c \in CallIds |-> "none"]
    /\ thread = [c \in CallIds |-> "none"]
    /\ ncalls = 0
    /\ batch = NoBatch
    /\ item = [i \in Items |-> "none"]
    /\ fx = NoRun
    /\ fixState = [i \in FixIds |-> "none"]
    /\ fixIn = [i \in FixIds |-> NoDoc]
    /\ fixOut = [i \in FixIds |-> NoDoc]
    /\ cp = NoCopy
    /\ topObj = [i \in ObjIds |-> [summary |-> 1, contact |-> 0, skills |-> 0]]
    /\ dictObj = [o \in ObjIds |-> [email |-> 1]]
    /\ listObj = [o \in ObjIds |-> <<1>>]
    /\ cpState = [i \in CopyIds |-> [pc |-> "none", edits |-> 0]]
    /\ isolated = [i \in CopyIds |-> NoDoc]
    /\ mg = NoMerge
    /\ mc = [n \in CacheNames |-> EmptyLru]
    /\ wr = [t \in Threads |-> NoWrapper]
    /\ clr = NoClear
    /\ mret = NoManagerRet
    /\ mcalls = 0
    /\ pib = NoChunked
    /\ pending_requests = <<>>
    /\ processing = FALSE
    /\ aiReq = [c \in AiCalls |-> NoRequest]
    /\ lru = EmptyLru
    /\ touched = <<>>
    /\ lruRet = NoLruRet

(***************************************************************************)
(* LRUCache actions.  A call enters its `with self.lock:` block (Enter..), *)
(* then runs the body in the steps below and leaves the block.             *)
(***************************************************************************)
Release(t, r) ==
    /\ lock' = NoThread
    /\ frame' = [frame EXCEPT ![t] = IdleFrame]
    /\ ret' = r

EnterGet(t, k) ==
    /\ frame[t].op = "none"
    /\ CanAcquire(lock)
    /\ hits + misses < MaxGets
    /\ lock' = t
    /\ frame' = [frame EXCEPT ![t] = Entered("get", k, 0)]
    /\ onlySets' = FALSE
    /\ setOrder' = <<>>
    /\ ret' = NoRet
    /\ UNCHANGED <<cache, hits, misses, now, gets, lock2>>
    /\ UNCHANGED otherThanCache

EnterSet(t, k, v) ==
    /\ frame[t].op = "none"
    /\ CanAcquire(lock)
    /\ lock' = t
    /\ frame' = [frame EXCEPT ![t] = Entered("set", k, v)]
    /\ ret' = NoRet
    /\ UNCHANGED <<cache, hits, misses, now, setOrder, onlySets, gets, lock2>>
    /\ UNCHANGED otherThanCache

EnterDelete(t, k) ==
    /\ frame[t].op = "none"
    /\ CanAcquire(lock)
    /\ lock' = t
    /\ frame' = [frame EXCEPT ![t] = Entered("delete", k, 0)]
    /\ onlySets' = FALSE
    /\ setOrder' = <<>>
    /\ ret' = NoRet
    /\ UNCHANGED <<cache, hits, misses, now, gets, lock2>>
    /\ UNCHANGED otherThanCache

EnterClear(t) ==
    /\ frame[t].op = "none"
    /\ CanAcquire(lock)
    /\ lock' = t
    /\ frame' = [frame EXCEPT ![t] = Entered("clear", 0, 0)]
    /\ onlySets' = FALSE
    /\ setOrder' = <<>>
    /\ ret' = NoRet
    /\ UNCHANGED <<cache, hits, misses, now, gets, lock2>>
    /\ UNCHANGED otherThanCache

\* get, lines 48-50: the membership test; a missing key is a miss
GetLookup(t) ==
    /\ frame[t].op = "get" /\ frame[t].pc = 1
    /\ LET k == frame[t].key IN
       IF k \notin CacheKeys(cache)
       THEN /\ misses' = Bump(misses)
            /\ gets' = gets + 1
            /\ Release(t, Returned("get", k, None))
            /\ UNCHANGED <<cache, hits>>
       ELSE /\ frame' = [frame EXCEPT ![t].pc = 2]
            /\ UNCHANGED <<cache, hits, misses, lock, ret, gets>>
    /\ UNCHANGED <<now, setOrder, onlySets, lock2>>
    /\ UNCHANGED otherThanCache

\* get, lines 52-63: read the entry; expired: del + miss; else move_to_end + hit.
\* (A key that vanished since the membership test is a KeyError: the call
\* leaves the block with no value.)
GetFinish(t) ==
    /\ frame[t].op = "get" /\ frame[t].pc = 2
    /\ LET k == frame[t].key IN
       IF k \notin CacheKeys(cache)
       THEN /\ Release(t, Returned("KeyError", k, None))
            /\ UNCHANGED <<cache, hits, misses>>
       ELSE IF Expired(Entry(cache, k).ts, now)
       THEN /\ cache' = DelKey(cache, k)
            /\ misses' = Bump(misses)
            /\ Release(t, [Returned("get", k, None) EXCEPT !.expired = TRUE])
            /\ UNCHANGED hits
       ELSE /\ cache' = Touch(cache, k)
            /\ hits' = Bump(hits)
            /\ Release(t, Returned("get", k, Entry(cache, k).value))
            /\ UNCHANGED misses
    /\ gets' = gets + 1
    /\ UNCHANGED <<now, setOrder, onlySets, lock2>>
    /\ UNCHANGED otherThanCache

\* set, lines 75-76: evict the head when a new key arrives at capacity
SetEvict(t) ==
    /\ frame[t].op = "set" /\ frame[t].pc = 1
    /\ cache' = IF AtCapacity(cache, frame[t].key) /\ cache # <<>>
                THEN PopFirst(cache) ELSE cache
    /\ frame' = [frame EXCEPT ![t].pc = 2]
    /\ UNCHANGED <<hits, misses, lock, ret, now, setOrder, onlySets, gets, lock2>>
    /\ UNCHANGED otherThanCache

\* set, lines 79-80: store (value, time.time()) and move the key to the end
SetStore(t) ==
    /\ frame[t].op = "set" /\ frame[t].pc = 2
    /\ LET k == frame[t].key IN
       /\ cache' = MoveToEnd(Assign(cache, k, frame[t].value, now), k)
       /\ setOrder' = IF onlySets
                      THEN Append(SelectSeq(setOrder, LAMBDA x : x # k), k)
                      ELSE setOrder
       /\ Release(t, Returned("set", k, None))
    /\ UNCHANGED <<hits, misses, now, onlySets, gets, lock2>>
    /\ UNCHANGED otherThanCache

\* delete, lines 93-96
Delete(t) ==
    /\ frame[t].op = "delete" /\ frame[t].pc = 1
    /\ LET k == frame[t].key IN
       /\ cache' = DelKey(cache, k)
       /\ Release(t, Returned("delete", k, IF k \in CacheKeys(cache) THEN 1 ELSE 0))
    /\ UNCHANGED <<hits, misses, now, setOrder, onlySets, gets, lock2>>
    /\ UNCHANGED otherThanCache

\* clear, lines 101-103
Clear(t) ==
    /\ frame[t].op = "clear" /\ frame[t].pc = 1
    /\ cache' = <<>>
    /\ hits' = 0
    /\ misses' = 0
    /\ gets' = 0
    /\ Release(t, Returned("clear", 0, None))
    /\ UNCHANGED <<now, setOrder, onlySets, lock2>>
    /\ UNCHANGED otherThanCache

\* a call on the second instance: it takes that instance's lock (line 33: each
\* instance creates its own), runs its body and leaves
EnterOther(t) ==
    /\ frame[t].op = "none"
    /\ CanAcquire(lock2)
    /\ lock2' = t
    /\ frame' = [frame EXCEPT ![t] = Entered("other", 0, 0)]
    /\ ret' = NoRet
    /\ UNCHANGED <<cache, hits, misses, lock, now, setOrder, onlySets, gets>>
    /\ UNCHANGED otherThanCache

LeaveOther(t) ==
    /\ frame[t].op = "other"
    /\ lock2' = NoThread
    /\ frame' = [frame EXCEPT ![t] = IdleFrame]
    /\ ret' = NoRet
    /\ UNCHANGED <<cache, hits, misses, lock, now, setOrder, onlySets, gets>>
    /\ UNCHANGED otherThanCache

\* time.time() advances
Tick ==
    /\ now < MaxTime
    /\ now' = now + 1
    /\ ret' = NoRet
    /\ UNCHANGED <<cache, hits, misses, lock, frame, setOrder, onlySets, gets, lock2>>
    /\ UNCHANGED otherThanCache

NextCache ==
    \/ \E t \in Threads, k \in Keys : EnterGet(t, k)
    \/ \E t \in Threads, k \in Keys, v \in Values : EnterSet(t, k, v)
    \/ \E t \in Threads, k \in Keys : EnterDelete(t, k)
    \/ \E t \in Threads : EnterClear(t)
    \/ \E t \in Threads : GetLookup(t)
    \/ \E t \in Threads : GetFinish(t)
    \/ \E t \in Threads : SetEvict(t)
    \/ \E t \in Threads : SetStore(t)
    \/ \E t \in Threads : Delete(t)
    \/ \E t \in Threads : Clear(t)
    \/ Tick

SpecCache == Init /\ [][NextCache]_vars

\* two instances used by the same threads, all calls within one tick of the clock
NextTwoCaches ==
    \/ \E t \in Threads, k \in Keys : EnterGet(t, k)
    \/ \E t \in Threads, k \in Keys, v \in Values : EnterSet(t, k, v)
    \/ \E t \in Threads, k \in Keys : EnterDelete(t, k)
    \/ \E t \in Threads : EnterClear(t)
    \/ \E t \in Threads : GetLookup(t)
    \/ \E t \in Threads : GetFinish(t)
    \/ \E t \in Threads : SetEvict(t)
    \/ \E t \in Threads : SetStore(t)
    \/ \E t \in Threads : Delete(t)
    \/ \E t \in Threads : Clear(t)
    \/ \E t \in Threads : EnterOther(t)
    \/ \E t \in Threads : LeaveOther(t)

SpecTwoCaches == Init /\ [][NextTwoCaches]_vars

(***************************************************************************)
(* rate_limit.wrapper.  The wrapper is a coroutine; from its first line to *)
(* `await func(...)` (lines 57-83) it has no suspension point, so that     *)
(* part runs as one step of the event loop.                                *)
(***************************************************************************)
\* a request for endpoint e by client c reaches the server
Arrive(r, c, e) ==
    /\ req[r].pc = "idle"
    /\ req' = [req EXCEPT ![r] = [pc |-> "ready", client |-> c, endpoint |-> e]]
    /\ usedEndpoints' = [usedEndpoints EXCEPT ![c] = @ \cup {e}]
    /\ outcome' = NoOutcome
    /\ UNCHANGED <<request_history, admitted, now>>
    /\ UNCHANGED otherThanRate

\* exactly one slot is free for client c and another request of c is waiting
Raced(r, c, e, h) ==
    /\ Len(h) = MaxRequests[e] - 1
    /\ \E r2 \in Slots \ {r} : req[r2].pc = "ready" /\ req[r2].client = c
                                /\ req[r2].endpoint = e

\* lines 57-80: prune, check, then reject (429) or append and call the endpoint
Wrapper(r) ==
    /\ req[r].pc = "ready"
    /\ LET c == req[r].client
           e == req[r].endpoint
           key == HistoryKey(c, e)
           h == Prune(History(request_history, key), now, WindowTicks)
       IN IF ~Admits(h, MaxRequests[e])
          THEN /\ request_history' =
                      [x \in DOMAIN request_history \cup {key} |->
                          IF x = key THEN h ELSE request_history[x]]
               /\ outcome' = [client |-> c, endpoint |-> e,
                              admitted |-> FALSE,
                              retry_after |-> IF h = <<>> THEN 0
                                              ELSE RetryAfter(now, Head(h), WindowTicks),
                              raced |-> FALSE]
               /\ req' = [req EXCEPT ![r] = IdleSlot]
               /\ UNCHANGED admitted
          ELSE /\ request_history' =
                      [x \in DOMAIN request_history \cup {key} |->
                          IF x = key THEN HistoryAppend(h, now) ELSE request_history[x]]
               /\ outcome' = [client |-> c, endpoint |-> e,
                              admitted |-> TRUE, retry_after |-> 0,
                              raced |-> Raced(r, c, e, h)]
               /\ req' = [req EXCEPT ![r].pc = "handler"]
               /\ admitted' = [admitted EXCEPT ![c] = Remember(@, now)]
    /\ UNCHANGED <<usedEndpoints, now>>
    /\ UNCHANGED otherThanRate

\* line 83: the awaited endpoint returns
HandlerReturn(r) ==
    /\ req[r].pc = "handler"
    /\ req' = [req EXCEPT ![r] = IdleSlot]
    /\ outcome' = NoOutcome
    /\ UNCHANGED <<request_history, admitted, usedEndpoints, now>>
    /\ UNCHANGED otherThanRate

\* time.time() advances
RateTick ==
    /\ now < RateMaxTime
    /\ now' = now + 1
    /\ outcome' = NoOutcome
    /\ UNCHANGED <<request_history, req, admitted, usedEndpoints>>
    /\ UNCHANGED otherThanRate

\* cleanup_old_entries, lines 97-115: a plain function, one step of the event
\* loop that runs the wrappers
CleanupOldEntries(max_age) ==
    /\ LET cutoff_time == CutoffTime(now, max_age)
           pruned == [ip \in DOMAIN request_history |->
                         DropOld(request_history[ip], cutoff_time)]
           ips_to_remove == {ip \in DOMAIN pruned : pruned[ip] = <<>>}
       IN /\ request_history' = [ip \in DOMAIN pruned \ ips_to_remove |-> pruned[ip]]
          /\ outcome' = [client |-> "", endpoint |-> "", admitted |-> FALSE,
                         retry_after |-> 0, raced |-> FALSE,
                         max_age |-> max_age,
                         removed |-> Cardinality(ips_to_remove),
                         trimmed |-> {ip \in DOMAIN pruned \ ips_to_remove :
                                         pruned[ip] # request_history[ip]}]
    /\ UNCHANGED <<req, admitted, usedEndpoints, now>>
    /\ UNCHANGED otherThanRate

NextRate ==
    \/ \E r \in Slots, c \in Clients, e \in Endpoints : Arrive(r, c, e)
    \/ \E r \in Slots : Wrapper(r)
    \/ \E r \in Slots : HandlerReturn(r)
    \/ RateTick

SpecRate == Init /\ [][NextRate]_vars

\* the rate limiter with the periodic sweep.  The sweep meets the wrappers only
\* through the table, so the requests are taken one at a time, and they go to
\* the endpoint of the largest limit: every table that requests to the other
\* endpoints can build is built by these too
SweepSlots == {"r1"}

SweepEndpoints == {e \in Endpoints : MaxRequests[e] = MaxLimit}

NextSweep ==
    \/ \E r \in SweepSlots, c \in Clients, e \in SweepEndpoints : Arrive(r, c, e)
    \/ \E r \in SweepSlots : Wrapper(r)
    \/ \E r \in SweepSlots : HandlerReturn(r)
    \/ RateTick
    \/ \E max_age \in MaxAges : CleanupOldEntries(max_age)

SpecSweep == Init /\ [][NextSweep]_vars

(***************************************************************************)
(* DebouncedProcessor.  process() and debounced_task() are coroutines of   *)
(* one event loop: each action is the code between two suspension points.  *)
(* The processor itself runs in a worker thread (asyncio.to_thread), which *)
(* a cancellation of the awaiting coroutine does not stop.  The result of  *)
(* the execution started by call c is c: one value per execution.          *)
(***************************************************************************)
\* lines 155-179, up to the first await
Process(k, force) ==
    /\ ncalls < MaxCalls
    /\ LET c == ncalls + 1 IN
       /\ ncalls' = c
       /\ IF Cached(results_cache, k, force)
          THEN \* lines 155-156
               /\ call' = [call EXCEPT ![c] =
                             [pc |-> "returned", key |-> k, force |-> force,
                              result |-> results_cache[k], seen |-> 0, awaits |-> 0]]
               /\ UNCHANGED <<pending_tasks, task, thread>>
          ELSE IF force
          THEN \* lines 159-164: cancel the registered task, run the processor now
               /\ task' = Cancel(task, pending_tasks[k])
               /\ thread' = [thread EXCEPT ![c] = "running"]
               /\ call' = [call EXCEPT ![c] =
                             [pc |-> "forcerun", key |-> k, force |-> TRUE, result |-> 0,
                              seen |-> IF Live(pending_tasks[k]) THEN pending_tasks[k] ELSE 0,
                              awaits |-> 0]]
               /\ UNCHANGED pending_tasks
          ELSE \* lines 159-160, 176-179: cancel the registered task, register a new one
               /\ task' = [Cancel(task, pending_tasks[k]) EXCEPT ![c] = "sleeping"]
               /\ pending_tasks' = [pending_tasks EXCEPT ![k] = c]
               /\ call' = [call EXCEPT ![c] =
                             [pc |-> "await", key |-> k, force |-> FALSE, result |-> 0,
                              seen |-> IF Live(pending_tasks[k]) THEN pending_tasks[k] ELSE 0,
                              awaits |-> c]]
               /\ UNCHANGED thread
    /\ UNCHANGED results_cache
    /\ UNCHANGED otherThanDebounce

\* line 170-171: the debounce delay is over, the processor starts in a thread
SleepElapsed(t) ==
    /\ task[t] = "sleeping"
    /\ task' = [task EXCEPT ![t] = "running"]
    /\ thread' = [thread EXCEPT ![t] = "running"]
    /\ UNCHANGED <<pending_tasks, results_cache, call, ncalls>>
    /\ UNCHANGED otherThanDebounce

\* the processor returns in its thread
ProcessorReturns(c) ==
    /\ thread[c] = "running"
    /\ thread' = [thread EXCEPT ![c] = "ok"]
    /\ UNCHANGED <<pending_tasks, results_cache, call, task, ncalls>>
    /\ UNCHANGED otherThanDebounce

\* the processor raises in its thread
ProcessorRaises(c) ==
    /\ thread[c] = "running"
    /\ thread' = [thread EXCEPT ![c] = "raised"]
    /\ UNCHANGED <<pending_tasks, results_cache, call, task, ncalls>>
    /\ UNCHANGED otherThanDebounce

\* lines 171-174: the task resumes with the processor's outcome
TaskResume(t) ==
    /\ task[t] = "running"
    /\ thread[t] \in {"ok", "raised"}
    /\ LET k == call[t].key IN
       IF thread[t] = "raised"
       THEN /\ task' = [task EXCEPT ![t] = "failed"]
            /\ UNCHANGED <<results_cache, pending_tasks>>
       ELSE /\ results_cache' = [results_cache EXCEPT ![k] = t]
            /\ IF pending_tasks[k] = 0
               THEN \* del of a missing key: KeyError
                    /\ task' = [task EXCEPT ![t] = "failed"]
                    /\ UNCHANGED pending_tasks
               ELSE /\ pending_tasks' = [pending_tasks EXCEPT ![k] = 0]
                    /\ task' = [task EXCEPT ![t] = "done"]
    /\ UNCHANGED <<call, thread, ncalls>>
    /\ UNCHANGED otherThanDebounce

\* lines 164-166: a forced call resumes with the processor's outcome
ForceResume(c) ==
    /\ call[c].pc = "forcerun"
    /\ thread[c] \in {"ok", "raised"}
    /\ IF thread[c] = "raised"
       THEN /\ call' = [call EXCEPT ![c].pc = "raised"]
            /\ UNCHANGED results_cache
       ELSE /\ results_cache' = [results_cache EXCEPT ![call[c].key] = c]
            /\ call' = [call EXCEPT ![c].pc = "returned", ![c].result = c]
    /\ UNCHANGED <<pending_tasks, task, thread, ncalls>>
    /\ UNCHANGED otherThanDebounce

\* line 179: `return await task` resumes: the task's result, its error, or
\* CancelledError when the task was cancelled
AwaitResume(c) ==
    /\ call[c].pc = "await"
    /\ task[call[c].awaits] \in {"done", "failed", "cancelled"}
    /\ call' = [call EXCEPT ![c] =
                  IF task[call[c].awaits] = "done"
                  THEN [@ EXCEPT !.pc = "returned", !.result = call[c].awaits]
                  ELSE IF task[call[c].awaits] = "failed"
                  THEN [@ EXCEPT !.pc = "raised"]
                  ELSE [@ EXCEPT !.pc = "cancelled"]]
    /\ UNCHANGED <<pending_tasks, results_cache, task, thread, ncalls>>
    /\ UNCHANGED otherThanDebounce

\* clear_cache(key), lines 188-191, called while some result is cached:
\* `if key:` pops the key, any falsy argument clears the whole dict
ClearCache(key) ==
    /\ \E k \in DKeys : results_cache[k] # 0
    /\ results_cache' = IF KeyGiven(key)
                        THEN [k \in DKeys |-> IF k = key THEN 0 ELSE results_cache[k]]
                        ELSE [k \in DKeys |-> 0]
    /\ UNCHANGED <<pending_tasks, call, task, thread, ncalls>>
    /\ UNCHANGED otherThanDebounce

NextDebounce ==
    \/ \E k \in DKeys, force \in BOOLEAN : Process(k, force)
    \/ \E t \in CallIds : SleepElapsed(t)
    \/ \E c \in CallIds : ProcessorReturns(c)
    \/ \E c \in CallIds : ProcessorRaises(c)
    \/ \E t \in CallIds : TaskResume(t)
    \/ \E c \in CallIds : ForceResume(c)
    \/ \E c \in CallIds : AwaitResume(c)
    \/ \E key \in ClearArgs : ClearCache(key)

SpecDebounce == Init /\ [][NextDebounce]_vars

(***************************************************************************)
(* BatchProcessor.process_batch                                            *)
(***************************************************************************)
\* lines 48-58: an empty list returns at once; a parallel call with more than
\* one item submits every item to the executor and awaits gather; any other
\* call enters the sequential loop
ProcessBatch(n, fails, parallel) ==
    /\ batch.pc = "idle"
    /\ IF n = 0
       THEN /\ batch' = [NoBatch EXCEPT !.pc = "done", !.parallel = parallel]
            /\ UNCHANGED item
       ELSE IF parallel /\ n > 1
       THEN /\ batch' = [NoBatch EXCEPT !.pc = "gather", !.n = n, !.fails = fails,
                                        !.parallel = TRUE]
            /\ item' = [i \in Items |-> IF i <= n THEN "queued" ELSE "none"]
       ELSE /\ batch' = [NoBatch EXCEPT !.pc = "seq", !.n = n, !.fails = fails,
                                        !.parallel = parallel, !.i = 1]
            /\ UNCHANGED item
    /\ UNCHANGED otherThanBatch

\* ThreadPoolExecutor(max_workers): a free worker takes a queued item
WorkerStart(i) ==
    /\ item[i] = "queued"
    /\ FreeWorker(item)
    /\ item' = [item EXCEPT ![i] = "running"]
    /\ UNCHANGED batch
    /\ UNCHANGED otherThanBatch

\* the processor returns or raises in its worker
WorkerFinish(i) ==
    /\ item[i] = "running"
    /\ item' = [item EXCEPT ![i] = IF i \in batch.fails THEN "raised" ELSE "ok"]
    /\ batch' = [batch EXCEPT !.finished = Append(@, i)]
    /\ UNCHANGED otherThanBatch

\* lines 58-68: gather(return_exceptions=True) resumes when every future is done
GatherDone ==
    /\ batch.pc = "gather"
    /\ \A i \in 1..batch.n : item[i] \in {"ok", "raised"}
    /\ LET order == FuturesInOrder([i \in 1..batch.n |-> i], batch.finished)
       IN batch' = [batch EXCEPT !.pc = "done",
                       !.results = FilterResults([k \in 1..batch.n |->
                                                     Outcome(order[k], batch.fails)])]
    /\ UNCHANGED item
    /\ UNCHANGED otherThanBatch

\* lines 72-77: the sequential loop processes the next item
SeqStep ==
    /\ batch.pc = "seq"
    /\ batch.i <= batch.n
    /\ batch' = [SeqTurn(batch) EXCEPT !.finished = Append(@, batch.i)]
    /\ item' = [item EXCEPT ![batch.i] = IF batch.i \in batch.fails THEN "raised" ELSE "ok"]
    /\ UNCHANGED otherThanBatch

\* line 78
SeqDone ==
    /\ batch.pc = "seq"
    /\ batch.i > batch.n
    /\ batch' = [batch EXCEPT !.pc = "done"]
    /\ UNCHANGED item
    /\ UNCHANGED otherThanBatch

\* the caller has its list; the processor is ready for the next call
BatchReturned ==
    /\ batch.pc = "done"
    /\ batch' = NoBatch
    /\ item' = [i \in Items |-> "none"]
    /\ UNCHANGED otherThanBatch

NextBatch ==
    \/ \E n \in 0..MaxItems, parallel \in BOOLEAN :
           \E fails \in SUBSET (1..n) : ProcessBatch(n, fails, parallel)
    \/ \E i \in Items : WorkerStart(i)
    \/ \E i \in Items : WorkerFinish(i)
    \/ GatherDone
    \/ SeqStep
    \/ SeqDone
    \/ BatchReturned

SpecBatch == Init /\ [][NextBatch]_vars

\* the executor hands a queued item to a free worker, and a processor that
\* has been started returns or raises
FairBatch == \A i \in Items : WF_vars(WorkerStart(i)) /\ WF_vars(WorkerFinish(i))

SpecBatchFair == SpecBatch /\ FairBatch

(***************************************************************************)
(* ParallelFixProcessor.process_fixes_parallel.  _apply_fix is awaited: a  *)
(* fix starts in one step and returns or raises in a later one.            *)
(***************************************************************************)
Dependent(i) == i \in 1..Len(fx.fixes) /\ ~IsIndependent(fx.fixes[i].type)

Independent(i) == i \in 1..Len(fx.fixes) /\ IsIndependent(fx.fixes[i].type)

\* lines 239-240: the loop takes the dependent fixes in list order
AnyDependent == {i \in FixIds : Dependent(i) /\ fixState[i] = "todo"}

NextDependent ==
    {i \in FixIds : /\ Dependent(i) /\ fixState[i] = "todo"
                    /\ \A j \in 1..(i - 1) : Dependent(j) => fixState[j] = "done"}

\* line 240: an exception of a dependent fix is not caught
SwallowError(f) == f

DependentRaised(f) == [f EXCEPT !.pc = "raised"]

\* lines 254-256: merge the results that are not exceptions, in list order
RECURSIVE MergeEvery(_, _, _)
RECURSIVE MergeResults(_, _, _)
MergeEvery(cur, ids, outs) ==
    IF ids = <<>> THEN cur
    ELSE MergeEvery(MergeResumeChanges(cur, IF outs[Head(ids)] = NoDoc
                                            THEN Resume ELSE outs[Head(ids)]),
                    Tail(ids), outs)

MergeResults(cur, ids, outs) ==
    IF ids = <<>> THEN cur
    ELSE IF outs[Head(ids)] = NoDoc
    THEN MergeResults(cur, Tail(ids), outs)
    ELSE MergeResults(MergeResumeChanges(cur, outs[Head(ids)]), Tail(ids), outs)

\* asyncio.gather in the order the awaitables complete
GatherCompletionOrder(ids, finished) == finished

\* line 251: asyncio.gather returns the results in the order of the awaitables
\* it was given, whatever order they complete in
GatherOrder(ids, finished) == ids

\* the indices of the independent fixes, in list order (lines 226-235)
IndependentIds == SelectSeq([i \in 1..Len(fx.fixes) |-> i], LAMBDA i : Independent(i))

\* lines 222-238
StartFixes(fixes) ==
    /\ fx.pc = "idle"
    /\ fx' = [pc |-> "dependent", fixes |-> fixes, current |-> Resume, returned |-> NoDoc,
              finished |-> <<>>]
    /\ fixState' = [i \in FixIds |-> IF i <= Len(fixes) THEN "todo" ELSE "none"]
    /\ UNCHANGED <<fixIn, fixOut>>
    /\ UNCHANGED otherThanFix

\* line 240: await self._apply_fix(current_resume, fix)
DepStart(i) ==
    /\ fx.pc = "dependent"
    /\ \A j \in FixIds : fixState[j] # "running"
    /\ i \in NextDependent
    /\ fixState' = [fixState EXCEPT ![i] = "running"]
    /\ fixIn' = [fixIn EXCEPT ![i] = fx.current]
    /\ UNCHANGED <<fx, fixOut>>
    /\ UNCHANGED otherThanFix

\* line 240: the fix returns, and current_resume is its document; or it raises
DepFinish(i) ==
    /\ fx.pc = "dependent"
    /\ Dependent(i) /\ fixState[i] = "running"
    /\ IF fx.fixes[i].edit = "raise"
       THEN /\ fixState' = [fixState EXCEPT ![i] = "failed"]
            /\ fx' = DependentRaised(fx)
            /\ UNCHANGED fixOut
       ELSE /\ fixState' = [fixState EXCEPT ![i] = "done"]
            /\ fixOut' = [fixOut EXCEPT ![i] = ApplyEdit(fixIn[i], fx.fixes[i].edit)]
            /\ fx' = [fx EXCEPT !.current = ApplyEdit(fixIn[i], fx.fixes[i].edit)]
    /\ UNCHANGED fixIn
    /\ UNCHANGED otherThanFix

\* lines 243-251: the dependent loop is over; with no independent fix the
\* document is returned, else every independent fix gets its copy and starts
Launch ==
    /\ fx.pc = "dependent"
    /\ \A j \in FixIds : Dependent(j) => fixState[j] \in {"done", "failed"}
    /\ IF IndependentIds = <<>>
       THEN /\ fx' = [fx EXCEPT !.pc = "done", !.returned = fx.current]
            /\ UNCHANGED <<fixState, fixIn>>
       ELSE /\ fx' = [fx EXCEPT !.pc = "gather"]
            /\ fixState' = [i \in FixIds |-> IF Independent(i) THEN "running" ELSE fixState[i]]
            /\ fixIn' = [i \in FixIds |-> IF Independent(i) THEN Copy(fx.current) ELSE fixIn[i]]
    /\ UNCHANGED fixOut
    /\ UNCHANGED otherThanFix

\* an independent fix returns its document or raises (gather keeps the exception)
IndepFinish(i) ==
    /\ fx.pc = "gather"
    /\ Independent(i) /\ fixState[i] = "running"
    /\ IF fx.fixes[i].edit = "raise"
       THEN /\ fixState' = [fixState EXCEPT ![i] = "failed"]
            /\ UNCHANGED fixOut
       ELSE /\ fixState' = [fixState EXCEPT ![i] = "done"]
            /\ fixOut' = [fixOut EXCEPT ![i] = ApplyEdit(fixIn[i], fx.fixes[i].edit)]
    /\ fx' = [fx EXCEPT !.finished = Append(fx.finished, i)]
    /\ UNCHANGED fixIn
    /\ UNCHANGED otherThanFix

\* lines 251-258: gather resumes, the results are merged, the document returned
MergeAndReturn ==
    /\ fx.pc = "gather"
    /\ \A i \in FixIds : Independent(i) => fixState[i] \in {"done", "failed"}
    /\ LET merged == MergeResults(fx.current, GatherOrder(IndependentIds, fx.finished),
                                   fixOut)
       IN fx' = [fx EXCEPT !.pc = "done", !.current = merged, !.returned = merged]
    /\ UNCHANGED <<fixState, fixIn, fixOut>>
    /\ UNCHANGED otherThanFix

\* the lists of at most n fixes
FixLists(n) == UNION {[1..m -> Fixes] : m \in 0..n}

NextFix ==
    \/ fx.pc = "idle" /\ \E fixes \in FixLists(MaxFixes) : StartFixes(fixes)
    \/ \E i \in FixIds : DepStart(i)
    \/ \E i \in FixIds : DepFinish(i)
    \/ Launch
    \/ \E i \in FixIds : IndepFinish(i)
    \/ MergeAndReturn

SpecFix == Init /\ [][NextFix]_vars

(***************************************************************************)
(* process_fixes_parallel, lines 243-258, on documents as objects: the     *)
(* dependent loop has left current_resume (summary s), every independent   *)
(* fix gets current_resume.copy() and modifies the document it was given.  *)
(***************************************************************************)
\* lines 243-251: the copies are made and the fixes started
CopyLaunch(n, s) ==
    /\ cp.pc = "idle"
    /\ LET cur == [topObj[0] EXCEPT !.summary = s]
       IN /\ topObj' = [i \in ObjIds |-> IF i = 0 THEN cur
                                          ELSE IF i <= n THEN ShallowCopy(cur)
                                          ELSE topObj[i]]
          /\ cp' = [pc |-> "gather", n |-> n, post |-> Deref(cur, dictObj, listObj),
                    returned |-> NoDoc]
          /\ isolated' = [i \in CopyIds |-> IF i <= n THEN Deref(cur, dictObj, listObj)
                                             ELSE NoDoc]
    /\ cpState' = [i \in CopyIds |-> IF i <= n THEN [pc |-> "running", edits |-> 0]
                                      ELSE cpState[i]]
    /\ UNCHANGED <<dictObj, listObj>>
    /\ UNCHANGED otherThanObj

\* fix i modifies its document (the value it writes is i + 1)
CopyEdit(i, edit) ==
    /\ cp.pc = "gather"
    /\ cpState[i].pc = "running" /\ cpState[i].edits < MaxEdits
    /\ cpState' = [cpState EXCEPT ![i].edits = @ + 1]
    /\ CASE edit = "summary" ->
              \* resume['summary'] = v
              /\ topObj' = [topObj EXCEPT ![i].summary = i + 1]
              /\ isolated' = [isolated EXCEPT ![i] = Put(@, "summary", Scalar(i + 1))]
              /\ UNCHANGED <<dictObj, listObj>>
         [] edit = "contact" ->
              \* resume['contact']['email'] = v
              /\ dictObj' = [dictObj EXCEPT ![topObj[i].contact].email = i + 1]
              /\ isolated' = [isolated EXCEPT
                                ![i] = Put(@, "contact", Dict([email |-> Scalar(i + 1)]))]
              /\ UNCHANGED <<topObj, listObj>>
         [] edit = "append" ->
              \* resume['skills'].append(v)
              /\ listObj' = [listObj EXCEPT ![topObj[i].skills] = Append(@, i + 1)]
              /\ isolated' = [isolated EXCEPT
                                ![i] = Put(@, "skills", List(Append(@["skills"].v, i + 1)))]
              /\ UNCHANGED <<topObj, dictObj>>
         [] edit = "rebind" ->
              \* resume['skills'] = resume['skills'] + [v]
              /\ listObj' = [listObj EXCEPT ![i] = Append(listObj[topObj[i].skills], i + 1)]
              /\ topObj' = [topObj EXCEPT ![i].skills = i]
              /\ isolated' = [isolated EXCEPT
                                ![i] = Put(@, "skills", List(Append(@["skills"].v, i + 1)))]
              /\ UNCHANGED dictObj
    /\ UNCHANGED cp
    /\ UNCHANGED otherThanObj

\* fix i returns the document it was given
CopyReturn(i) ==
    /\ cp.pc = "gather"
    /\ cpState[i].pc = "running"
    /\ cpState' = [cpState EXCEPT ![i].pc = "done"]
    /\ UNCHANGED <<cp, topObj, dictObj, listObj, isolated>>
    /\ UNCHANGED otherThanObj

\* fix i raises (gather keeps the exception)
CopyRaise(i) ==
    /\ cp.pc = "gather"
    /\ cpState[i].pc = "running"
    /\ cpState' = [cpState EXCEPT ![i].pc = "failed"]
    /\ UNCHANGED <<cp, topObj, dictObj, listObj, isolated>>
    /\ UNCHANGED otherThanObj

\* lines 254-258: _merge_resume_changes builds new dicts and modifies no
\* existing object, so the merged document is the merge of the values
CopyMerge ==
    /\ cp.pc = "gather"
    /\ \A i \in 1..cp.n : cpState[i].pc \in {"done", "failed"}
    /\ LET outs == [i \in CopyIds |-> IF cpState[i].pc = "done"
                                       THEN Deref(topObj[i], dictObj, listObj)
                                       ELSE NoDoc]
           merged == MergeResults(Deref(topObj[0], dictObj, listObj),
                                  [i \in 1..cp.n |-> i], outs)
       IN cp' = [cp EXCEPT !.pc = "done", !.returned = merged]
    /\ UNCHANGED <<topObj, dictObj, listObj, cpState, isolated>>
    /\ UNCHANGED otherThanObj

NextObj ==
    \/ \E n \in CopyIds, s \in {1, 2} : CopyLaunch(n, s)
    \/ \E i \in CopyIds, edit \in ObjEdits : CopyEdit(i, edit)
    \/ \E i \in CopyIds : CopyReturn(i)
    \/ \E i \in CopyIds : CopyRaise(i)
    \/ CopyMerge

SpecObj == Init /\ [][NextObj]_vars

(***************************************************************************)
(* _merge_resume_changes called on its own, and called again with its      *)
(* result and the same updated document (what the merge loop of lines      *)
(* 254-256 does when two results are equal).                               *)
(***************************************************************************)
MergeCall(base, updated) ==
    /\ mg.pc = "idle"
    /\ mg' = [pc |-> "merged", base |-> base, updated |-> updated,
              merged |-> MergeResumeChanges(base, updated), again |-> NoDoc]
    /\ UNCHANGED otherThanMerge

MergeAgain ==
    /\ mg.pc = "merged"
    /\ mg' = [mg EXCEPT !.pc = "again",
                        !.again = MergeResumeChanges(mg.merged, mg.updated)]
    /\ UNCHANGED otherThanMerge

NextMerge ==
    \/ mg.pc = "idle" /\ \E base \in DocShapes, updated \in DocShapes :
            MergeCall(MakeDoc(base), MakeDoc(updated))
    \/ MergeAgain

SpecMerge == Init /\ [][NextMerge]_vars

(***************************************************************************)
(* cached.wrapper (a plain function, run by whichever thread calls the     *)
(* decorated function), invalidate_cache, and the clear_cache endpoint.    *)
(***************************************************************************)
\* lines 245-262: select the cache, build the key, cache.get; a value that is
\* not None is returned at once
WrapperCall(t, cache_type, a) ==
    /\ wr[t].pc = "idle"
    /\ mcalls < MaxMgrCalls
    /\ mcalls' = mcalls + 1
    /\ LET n == SelectCache(cache_type)
           k == GenerateCacheKey(a)
           g == LruGet(mc[n], k, now)
       IN /\ mc' = [mc EXCEPT ![n] = g.c]
          /\ IF g.val # None
             THEN /\ wr' = wr
                  /\ mret' = [op |-> "cached", type |-> cache_type, cache |-> n,
                              status |-> 200, val |-> g.val]
             ELSE /\ wr' = [wr EXCEPT ![t] = [pc |-> "missed", type |-> cache_type,
                                              cache |-> n, key |-> k, result |-> None]]
                  /\ mret' = NoManagerRet
    /\ UNCHANGED <<clr, now>>
    /\ UNCHANGED otherThanManager

\* line 265: result = func(*args, **kwargs)
WrapperCompute(t, r) ==
    /\ wr[t].pc = "missed"
    /\ wr' = [wr EXCEPT ![t].pc = "computed", ![t].result = r]
    /\ mret' = NoManagerRet
    /\ UNCHANGED <<mc, clr, mcalls, now>>
    /\ UNCHANGED otherThanManager

\* line 265: func raises; nothing is stored and the exception reaches the caller
WrapperRaise(t) ==
    /\ wr[t].pc = "missed"
    /\ wr' = [wr EXCEPT ![t] = NoWrapper]
    /\ mret' = [op |-> "cached", type |-> wr[t].type, cache |-> wr[t].cache,
                status |-> 500, val |-> None]
    /\ UNCHANGED <<mc, clr, mcalls, now>>
    /\ UNCHANGED otherThanManager

\* lines 266-268: cache.set(cache_key, result); return result
WrapperStore(t) ==
    /\ wr[t].pc = "computed"
    /\ mc' = [mc EXCEPT ![wr[t].cache] = LruSet(@, wr[t].key, wr[t].result, now)]
    /\ wr' = [wr EXCEPT ![t] = NoWrapper]
    /\ mret' = [op |-> "cached", type |-> wr[t].type, cache |-> wr[t].cache,
                status |-> 200, val |-> wr[t].result]
    /\ UNCHANGED <<clr, mcalls, now>>
    /\ UNCHANGED otherThanManager

\* invalidate_cache, lines 288-303: select the cache, build the key, cache.delete
InvalidateCache(cache_type, a) ==
    /\ mcalls < MaxMgrCalls
    /\ mcalls' = mcalls + 1
    /\ LET n == SelectCache(cache_type)
           k == GenerateCacheKey(a)
       IN /\ mc' = [mc EXCEPT ![n] = LruDelete(@, k)]
          /\ mret' = [op |-> "invalidate", type |-> cache_type, cache |-> n,
                      status |-> 200,
                      val |-> IF k \in CacheKeys(mc[n].cache) THEN 1 ELSE 0]
    /\ UNCHANGED <<wr, clr, now>>
    /\ UNCHANGED otherThanManager

\* clear_cache, api.py lines 476-491 and 497: which caches the request clears;
\* an unregistered name raises at line 491, and lines 503-504 turn that into
\* the response
ClearRequest(cache_type) ==
    /\ clr.pc = "idle"
    /\ mcalls < MaxMgrCalls
    /\ mcalls' = mcalls + 1
    /\ IF Truthy(cache_type) /\ cache_type \notin CacheNames
       THEN /\ clr' = NoClear
            /\ mret' = [op |-> "clear", type |-> cache_type, cache |-> "none",
                        status |-> Reraise(400), val |-> None]
       ELSE /\ clr' = [pc |-> "clearing", type |-> cache_type,
                       todo |-> IF Truthy(cache_type) THEN <<cache_type>> ELSE CacheOrder,
                       cleared |-> {}]
            /\ mret' = NoManagerRet
    /\ UNCHANGED <<mc, wr, now>>
    /\ UNCHANGED otherThanManager

\* api.py lines 481-489, cache_manager.py lines 171-175: one LRUCache.clear()
ClearOne ==
    /\ clr.pc = "clearing"
    /\ clr.todo # <<>>
    /\ mc' = [mc EXCEPT ![Head(clr.todo)] = LruClear(@)]
    /\ clr' = [clr EXCEPT !.todo = Tail(@), !.cleared = @ \cup {Head(clr.todo)}]
    /\ mret' = NoManagerRet
    /\ UNCHANGED <<wr, mcalls, now>>
    /\ UNCHANGED otherThanManager

\* api.py lines 493-496 and 499-502: the success response
ClearResponse ==
    /\ clr.pc = "clearing"
    /\ clr.todo = <<>>
    /\ clr' = NoClear
    /\ mret' = [op |-> "clear", type |-> clr.type, cache |-> "none",
                status |-> 200, val |-> None]
    /\ UNCHANGED <<mc, wr, mcalls, now>>
    /\ UNCHANGED otherThanManager

NextManager ==
    \/ \E t \in Threads, ct \in TypeArgs \ {"None"}, a \in MgrArgs : WrapperCall(t, ct, a)
    \/ \E t \in Threads, r \in FuncResults : WrapperCompute(t, r)
    \/ \E t \in Threads : WrapperRaise(t)
    \/ \E t \in Threads : WrapperStore(t)
    \/ \E ct \in TypeArgs \ {"None"}, a \in MgrArgs : InvalidateCache(ct, a)
    \/ \E ct \in TypeArgs : ClearRequest(ct)
    \/ ClearOne
    \/ ClearResponse

SpecManager == Init /\ [][NextManager]_vars

(***************************************************************************)
(* BatchProcessor.process_in_batches                                       *)
(***************************************************************************)
\* lines 97-106: an empty list returns [] at once; else split and start the loop
ProcessInBatches(items, batch_size) ==
    /\ pib.pc \in {"idle", "returned"}
    /\ pib' = IF items = <<>>
              THEN [NoChunked EXCEPT !.pc = "returned"]
              ELSE [NoChunked EXCEPT !.pc = "loop", !.items = items,
                                     !.size = OrDefault(batch_size, SelfBatchSize),
                                     !.batches = Chunks(items, OrDefault(batch_size, SelfBatchSize))]
    /\ UNCHANGED otherThanChunk

\* lines 107-109: the next batch is handed to the processor in a worker thread
ChunkStart ==
    /\ pib.pc = "loop"
    /\ pib.i < Len(pib.batches)
    /\ pib' = [pib EXCEPT !.pc = "running", !.i = @ + 1,
                          !.calls = Append(@, pib.batches[pib.i + 1])]
    /\ UNCHANGED otherThanChunk

\* line 110: the processor returned
ChunkReturns ==
    /\ pib.pc = "running"
    /\ pib' = [pib EXCEPT !.pc = "loop",
                          !.results = Append(@, ChunkResult(pib.batches[pib.i]))]
    /\ UNCHANGED otherThanChunk

\* lines 111-112: the processor raised; the batch is logged and skipped
ChunkRaises ==
    /\ pib.pc = "running"
    /\ pib' = [pib EXCEPT !.pc = "loop", !.failed = @ \cup {pib.i}]
    /\ UNCHANGED otherThanChunk

\* line 114
ChunkedReturn ==
    /\ pib.pc = "loop"
    /\ pib.i = Len(pib.batches)
    /\ pib' = [pib EXCEPT !.pc = "returned"]
    /\ UNCHANGED otherThanChunk

ItemLists(n) == UNION {[1..m -> ItemValues] : m \in 0..n}

NextChunk ==
    \/ \E items \in ItemLists(MaxChunkItems), bs \in BatchSizeArgs :
          ProcessInBatches(items, bs)
    \/ ChunkStart
    \/ ChunkReturns
    \/ ChunkRaises
    \/ ChunkedReturn

SpecChunk == Init /\ [][NextChunk]_vars

(***************************************************************************)
(* BatchAIProcessor.add_request, a coroutine: it is suspended at the sleep *)
(* of line 369 and at the await of line 381 and nowhere else.              *)
(***************************************************************************)
\* lines 359-369: build the request, append it, go to sleep
AddRequest(c, request_type) ==
    /\ aiReq[c].pc = "new"
    /\ \A c2 \in AiCalls : c2 < c => aiReq[c2].pc # "new"
    /\ aiReq' = [aiReq EXCEPT ![c] = [NoRequest EXCEPT
                     !.pc = "sleeping",
                     !.id = RequestId(request_type, pending_requests)]]
    /\ pending_requests' = Append(pending_requests, c)
    /\ UNCHANGED processing
    /\ UNCHANGED otherThanAI

\* lines 372-381: the sleep is over (equal delays end in the order the calls
\* were made) and nobody is processing: take every pending request as the batch
\* and hand it to the processor in a worker thread
WakeAndProcess(c) ==
    /\ aiReq[c].pc = "sleeping"
    /\ \A c2 \in AiCalls : c2 < c => aiReq[c2].pc # "sleeping"
    /\ CanProcess(processing, pending_requests)
    /\ processing' = TRUE
    /\ aiReq' = [x \in AiCalls |->
                    IF x = c
                    THEN [aiReq[x] EXCEPT !.pc = "processing", !.batch = pending_requests,
                             !.batches = IF \E i \in 1..Len(pending_requests) :
                                                 pending_requests[i] = x
                                         THEN @ + 1 ELSE @]
                    ELSE IF \E i \in 1..Len(pending_requests) : pending_requests[i] = x
                    THEN [aiReq[x] EXCEPT !.batches = @ + 1]
                    ELSE aiReq[x]]
    /\ pending_requests' = <<>>
    /\ UNCHANGED otherThanAI

\* lines 372 and 393-397: the sleep is over while a batch is being processed
\* (or nothing is pending): look the request up and return
WakeAndReturn(c) ==
    /\ aiReq[c].pc = "sleeping"
    /\ \A c2 \in AiCalls : c2 < c => aiReq[c2].pc # "sleeping"
    /\ ~CanProcess(processing, pending_requests)
    /\ aiReq' = [aiReq EXCEPT ![c].pc = "done",
                    ![c].returned = FindResult(pending_requests, aiReq, aiReq[c].id)]
    /\ UNCHANGED <<pending_requests, processing>>
    /\ UNCHANGED otherThanAI

\* lines 381-397: the processor returned a list of results, one per request of
\* the batch or one short
BatchProcessed(c, short) ==
    /\ aiReq[c].pc = "processing"
    /\ LET nresults == Len(aiReq[c].batch) - (IF short THEN 1 ELSE 0)
           reqs == Distribute(aiReq, aiReq[c].batch, nresults) IN
       aiReq' = [reqs EXCEPT ![c].pc = "done",
                    ![c].returned = FindResult(pending_requests, reqs, aiReq[c].id)]
    /\ processing' = FALSE
    /\ UNCHANGED pending_requests
    /\ UNCHANGED otherThanAI

\* lines 387-397: the processor raised
BatchFailed(c) ==
    /\ aiReq[c].pc = "processing"
    /\ aiReq' = [aiReq EXCEPT ![c].pc = "done",
                    ![c].returned = FindResult(pending_requests, aiReq, aiReq[c].id)]
    /\ processing' = FALSE
    /\ UNCHANGED pending_requests
    /\ UNCHANGED otherThanAI

NextAI ==
    \/ \E c \in AiCalls, ty \in RequestTypes : AddRequest(c, ty)
    \/ \E c \in AiCalls : WakeAndProcess(c)
    \/ \E c \in AiCalls : WakeAndReturn(c)
    \/ \E c \in AiCalls, short \in BOOLEAN : BatchProcessed(c, short)
    \/ \E c \in AiCalls : BatchFailed(c)

SpecAI == Init /\ [][NextAI]_vars

(***************************************************************************)
(* One LRUCache instance whose calls are single steps: each body runs      *)
(* under self.lock from its first line to its last.  `touched` records the *)
(* order in which the keys were last set or hit.                           *)
(***************************************************************************)
MoveLast(order, k) == Append(SelectSeq(order, LAMBDA x : x # k), k)

\* the history keeps the keys that are still stored
Stored(order, c) == SelectSeq(order, LAMBDA x : x \in CacheKeys(c))

\* get, lines 47-63
LruCallGet(k) ==
    /\ lru.hits + lru.misses < MaxGets
    /\ LET g == LruGet(lru, k, now) IN
       /\ lru' = g.c
       /\ touched' = Stored(IF g.val # None THEN MoveLast(touched, k) ELSE touched,
                            g.c.cache)
       /\ lruRet' = [op |-> IF k \in CacheKeys(lru.cache) /\ g.val = None
                            THEN "expired" ELSE "get",
                     key |-> k, val |-> g.val, evicted |-> 0]
    /\ UNCHANGED now
    /\ UNCHANGED otherThanLru

\* set, lines 73-80
LruCallSet(k, v) ==
    /\ lru' = LruSet(lru, k, v, now)
    /\ touched' = Stored(MoveLast(touched, k), LruSet(lru, k, v, now).cache)
    /\ lruRet' = [op |-> "set", key |-> k, val |-> v,
                  evicted |-> IF AtCapacity(lru.cache, k) /\ lru.cache # <<>>
                              THEN Head(lru.cache).key ELSE 0]
    /\ UNCHANGED now
    /\ UNCHANGED otherThanLru

\* delete, lines 92-96
LruCallDelete(k) ==
    /\ k \in CacheKeys(lru.cache)
    /\ lru' = LruDelete(lru, k)
    /\ touched' = Stored(touched, LruDelete(lru, k).cache)
    /\ lruRet' = [op |-> "delete", key |-> k, val |-> None, evicted |-> 0]
    /\ UNCHANGED now
    /\ UNCHANGED otherThanLru

\* clear, lines 100-103
LruCallClear ==
    /\ lru # EmptyLru
    /\ lru' = LruClear(lru)
    /\ touched' = <<>>
    /\ lruRet' = [op |-> "clear", key |-> 0, val |-> None, evicted |-> 0]
    /\ UNCHANGED now
    /\ UNCHANGED otherThanLru

\* time.time() advances
LruTick ==
    /\ now < MaxTime
    /\ now' = now + 1
    /\ lruRet' = NoLruRet
    /\ UNCHANGED <<lru, touched>>
    /\ UNCHANGED otherThanLru

NextLru ==
    \/ \E k \in Keys : LruCallGet(k)
    \/ \E k \in Keys, v \in Values : LruCallSet(k, v)
    \/ \E k \in Keys : LruCallDelete(k)
    \/ LruCallClear
    \/ LruTick

SpecLru == Init /\ [][NextLru]_vars

(***************************************************************************)
(* C1: with max_size >= 1, after any sequence and any thread interleaving  *)
(* of get, set, delete and clear calls, the number of stored entries never *)
(* exceeds max_size.                                                       *)
(***************************************************************************)
C1_SizeBounded == Len(cache) <= MaxSize

\* a set has completed on a cache that is full, after gets that hit
C1_Witness ==
    /\ ret.op = "set"
    /\ Len(cache) = MaxSize
    /\ ~onlySets
    /\ hits > 0

(***************************************************************************)
(* C2: after a sequence of set calls only that used more than max_size     *)
(* distinct keys, the keys present are exactly the max_size distinct keys  *)
(* most recently set; and a set of a new key at capacity removes exactly   *)
(* one entry, the head of the recency order.                               *)
(***************************************************************************)
C2_SurvivorsAreMostRecent ==
    (onlySets /\ lock = NoThread /\ Len(setOrder) > MaxSize)
        => CacheKeys(cache) = Range(LastN(setOrder, MaxSize))

C2_EvictsHead ==
    \A t \in Threads :
        (/\ onlySets
         /\ frame[t].op = "set" /\ frame[t].pc = 1 /\ frame'[t].pc = 2
         /\ frame[t].key \notin CacheKeys(cache)
         /\ Len(cache) >= MaxSize)
            => cache' = Tail(cache)

C2_LruAfterSets == []C2_SurvivorsAreMostRecent /\ [][C2_EvictsHead]_vars

\* only sets so far, more than max_size distinct keys, the last one completed
C2_Witness ==
    /\ onlySets
    /\ lock = NoThread
    /\ ret.op = "set"
    /\ Len(setOrder) > MaxSize

(***************************************************************************)
(* C3: for one client and one limit (max_requests, window_seconds): a      *)
(* request is admitted exactly when fewer than max_requests admitted       *)
(* timestamps lie in the window ending now (so the first max_requests in a *)
(* window pass, the next one is rejected, and a request after the window   *)
(* has passed is admitted again); a rejection carries retry_after > 0; and *)
(* no interval of length window_seconds holds more than max_requests       *)
(* admitted timestamps.                                                    *)
(***************************************************************************)
SingleLimit(c, e) == usedEndpoints[c] = {e}

\* admitted timestamps of a log that lie in the window ending at t
InWindow(log, t) == Cardinality({i \in 1..Len(log) : log[i] >= t - WindowTicks})

C3_Decision ==
    \A r \in Slots :
        (req[r].pc = "ready" /\ req'[r].pc # "ready"
            /\ SingleLimit(req[r].client, req[r].endpoint))
        => /\ outcome'.client = req[r].client
           /\ outcome'.admitted =
                 (InWindow(admitted[req[r].client], now) < MaxRequests[req[r].endpoint])
           /\ ~outcome'.admitted => outcome'.retry_after > 0

\* the latest max_requests + 1 admitted timestamps span more than the window
C3_Window ==
    \A c \in Clients, e \in Endpoints :
        (SingleLimit(c, e) /\ Len(admitted[c]) > MaxRequests[e])
        => admitted[c][Len(admitted[c])]
              - admitted[c][Len(admitted[c]) - MaxRequests[e]] > WindowTicks

C3_SlidingWindow == []C3_Window /\ [][C3_Decision]_vars

\* a client of one endpoint is rejected with its window full, after it has been
\* admitted again once an earlier window had passed
C3_Witness ==
    \E c \in Clients, e \in Endpoints :
        /\ SingleLimit(c, e)
        /\ outcome.client = c /\ ~outcome.admitted /\ outcome.retry_after > 0
        /\ Len(History(request_history, c)) = MaxRequests[e]
        /\ Len(admitted[c]) > MaxRequests[e]

(***************************************************************************)
(* C4: prune-check-append is atomic per client: when a client has exactly  *)
(* one free slot and two of its requests are in flight, the one that runs  *)
(* first takes the slot and leaves the window full for the other; the      *)
(* client's queue never holds more than max_requests timestamps.           *)
(***************************************************************************)
C4_QueueBounded ==
    \A c \in Clients, e \in Endpoints :
        SingleLimit(c, e) => Len(History(request_history, c)) <= MaxRequests[e]

C4_OneSlotOneWinner ==
    \A r \in Slots, r2 \in Slots :
        (/\ r # r2
         /\ req[r].pc = "ready" /\ req'[r].pc # "ready"
         /\ req[r2].pc = "ready"
         /\ req[r2].client = req[r].client /\ req[r2].endpoint = req[r].endpoint
         /\ SingleLimit(req[r].client, req[r].endpoint)
         /\ InWindow(History(request_history, req[r].client), now)
                = MaxRequests[req[r].endpoint] - 1)
        => /\ req'[r].pc = "handler"
           /\ InWindow(History(request_history', req[r].client), now)
                = MaxRequests[req[r].endpoint]

C5_OverlapCoalesces ==
    \A c1 \in CallIds, c2 \in CallIds :
        (call[c2].pc # "new" /\ ~call[c2].force /\ call[c2].seen = c1)
        => /\ call[c2].awaits = c1
           /\ call[c1].pc # "cancelled"
           /\ ~(thread[c1] # "none" /\ thread[c2] # "none")
           /\ (call[c1].pc = "returned" /\ call[c2].pc = "returned")
                  => call[c1].result = call[c2].result

(***************************************************************************)
(* C6: at every moment and for every key at most one execution of the      *)
(* processor for that key is in flight, under any interleaving of forced   *)
(* and non-forced process calls.  (Claim as stated.)                       *)
(***************************************************************************)
C6_OneExecutionPerKey ==
    \A k \in DKeys :
        Cardinality({c \in CallIds : thread[c] = "running" /\ call[c].key = k}) <= 1

\* the same, for runs in which no call is forced
C6_OneExecutionPerKeyUnforced ==
    (\A c \in CallIds : ~call[c].force) => C6_OneExecutionPerKey

(***************************************************************************)
(* C7: process_batch over N items of which the subset F raise finishes     *)
(* without raising and returns exactly the N - |F| results of the other    *)
(* items; a failing item never keeps another item from being processed, in *)
(* parallel and in sequential mode.                                        *)
(***************************************************************************)
Survivors(n, fails) == SelectSeq([i \in 1..n |-> i], LAMBDA i : i \notin fails)

C7_Returned ==
    batch.pc = "done"
    => /\ batch.results = Survivors(batch.n, batch.fails)
       /\ Len(batch.results) = batch.n - Cardinality(batch.fails)
       /\ \A i \in 1..batch.n : item[i] = IF i \in batch.fails THEN "raised" ELSE "ok"

\* a call under way can always go on: it neither raises nor hangs
C7_GoesOn ==
    /\ batch.pc \in {"idle", "gather", "seq", "done"}
    /\ batch.pc = "gather" =>
          \/ ENABLED GatherDone
          \/ \E i \in Items : ENABLED WorkerStart(i) \/ ENABLED WorkerFinish(i)
    /\ batch.pc = "seq" => ENABLED SeqStep \/ ENABLED SeqDone

PrevDependent(i) ==
    IF \E j \in 1..(i - 1) : Dependent(j)
    THEN CHOOSE j \in 1..(i - 1) : Dependent(j) /\ \A m \in (j + 1)..(i - 1) : ~Dependent(m)
    ELSE 0

C8_StagesInOrder ==
    /\ \A i \in FixIds :
          (Dependent(i) /\ fixState[i] # "todo")
          => /\ \A j \in 1..(i - 1) : Dependent(j) => fixState[j] = "done"
             /\ fixIn[i] = IF PrevDependent(i) = 0 THEN Resume ELSE fixOut[PrevDependent(i)]
    /\ \A i \in FixIds :
          (Independent(i) /\ fixState[i] # "todo")
          => \A j \in FixIds : Dependent(j) => fixState[j] = "done"
    /\ (fx.pc = "done" \/ fx.returned # NoDoc)
          => \A i \in FixIds : Independent(i) => fixState[i] \in {"done", "failed"}
    /\ fx.pc = "gather"
          => \A i \in FixIds : Independent(i) => fixIn[i] = fx.current

\* two dependent fixes, the second after an independent one in the list, have
\* run and an independent fix is under way
C8_Witness ==
    /\ fx.pc = "gather"
    /\ \E i \in FixIds, j \in FixIds, m \in FixIds :
          /\ i < m /\ m < j
          /\ Dependent(i) /\ Dependent(j) /\ Independent(m)
          /\ fixState[j] = "done" /\ fixIn[j] = fixOut[i] /\ fixOut[i] # Resume
          /\ fixState[m] = "running"

(***************************************************************************)
(* C9: if a dependent fix raises, the error is propagated to the caller,   *)
(* no document is returned, and no later dependent fix and no independent  *)
(* fix is executed.                                                        *)
(***************************************************************************)
C9_DependentFailureIsFatal ==
    \A i \in FixIds :
        (Dependent(i) /\ fixState[i] = "failed")
        => /\ fx.pc = "raised"
           /\ fx.returned = NoDoc
           /\ \A j \in FixIds : (Dependent(j) /\ j > i) => fixState[j] = "todo"
           /\ \A j \in FixIds : Independent(j) => fixState[j] = "todo"

\* the first of two dependent fixes has raised; an independent fix was listed too
C9_Witness ==
    /\ fx.pc = "raised"
    /\ \E i \in FixIds, j \in FixIds, m \in FixIds :
          /\ Dependent(i) /\ fixState[i] = "failed"
          /\ Dependent(j) /\ j > i /\ Independent(m)

(***************************************************************************)
(* C10: if an independent fix raises, the run does not raise: the other    *)
(* independent fixes still run, the failing fix contributes nothing, and   *)
(* the returned document is the merge of the post-dependent document with  *)
(* the outputs of the successful independent fixes only.                   *)
(***************************************************************************)
\* the document after the dependent fixes of list l, from document d
RECURSIVE AfterDependent(_, _)
AfterDependent(d, l) ==
    IF l = <<>> THEN d
    ELSE IF IsIndependent(Head(l).type) THEN AfterDependent(d, Tail(l))
    ELSE AfterDependent(ApplyEdit(d, Head(l).edit), Tail(l))

\* base merged with what each successful independent fix of l makes of post
RECURSIVE MergeSuccessful(_, _, _)
MergeSuccessful(base, post, l) ==
    IF l = <<>> THEN base
    ELSE IF IsIndependent(Head(l).type) /\ Head(l).edit # "raise"
    THEN MergeSuccessful(MergeResumeChanges(base, ApplyEdit(post, Head(l).edit)), post, Tail(l))
    ELSE MergeSuccessful(base, post, Tail(l))

C10_IndependentFailureIsolated ==
    /\ \A i \in FixIds :
          (Independent(i) /\ fixState[i] = "failed") => fx.pc \in {"gather", "done"}
    /\ fx.pc = "done"
          => /\ \A i \in FixIds :
                  Independent(i) =>
                     fixState[i] = IF fx.fixes[i].edit = "raise" THEN "failed" ELSE "done"
             /\ fx.returned = MergeSuccessful(AfterDependent(Resume, fx.fixes),
                                               AfterDependent(Resume, fx.fixes), fx.fixes)

\* a run with a dependent fix, a failing independent fix and a succeeding one
\* after it has returned a document changed by both stages
C10_Witness ==
    /\ fx.pc = "done"
    /\ \E d \in FixIds, i \in FixIds, j \in FixIds :
          /\ Dependent(d) /\ fixState[d] = "done" /\ fixOut[d] # Resume
          /\ i < j
          /\ Independent(i) /\ fixState[i] = "failed"
          /\ Independent(j) /\ fixState[j] = "done"
          /\ fx.returned = fixOut[j]
          /\ fx.returned # fixOut[d]

(***************************************************************************)
(* C11: each independent fix works on its own copy of the post-dependent   *)
(* document: until the merge, what a fix changes in its document, at any   *)
(* depth, shows neither in the document of another independent fix nor in  *)
(* the base document.  (Claim as stated.)                                  *)
(***************************************************************************)
C11_OwnCopy ==
    cp.pc = "gather"
    => /\ Deref(topObj[0], dictObj, listObj) = cp.post
       /\ \A i \in 1..cp.n : Deref(topObj[i], dictObj, listObj) = isolated[i]

\* the part of it that dict.copy() gives: modifications of top-level keys
C11_TopLevelIsolated ==
    cp.pc = "gather"
    => /\ topObj[0].summary = cp.post["summary"].v
       /\ \A i \in 1..cp.n : Scalar(topObj[i].summary) = isolated[i]["summary"]

(***************************************************************************)
(* C12: _merge_resume_changes(base, updated) returns a mapping over the    *)
(* keys of both; for a key absent from updated base's value (no key of     *)
(* base is deleted), for a key absent from base updated's value, for two   *)
(* mappings their merge by the same rules, for two lists updated's list,   *)
(* and updated's value in every other case.                                *)
(***************************************************************************)
\* the rules one level down, where no value is a mapping
C12_InnerPolicy(b, u, m) ==
    /\ DOMAIN m = DOMAIN b \cup DOMAIN u
    /\ \A k \in DOMAIN m : m[k] = IF k \in DOMAIN u THEN u[k] ELSE b[k]

C12_MergePolicy ==
    mg.pc # "idle"
    => LET b == mg.base
           u == mg.updated
           m == mg.merged
       IN /\ DOMAIN m = DOMAIN b \cup DOMAIN u
          /\ \A k \in DOMAIN m :
                IF k \notin DOMAIN u THEN m[k] = b[k]
                ELSE IF k \notin DOMAIN b THEN m[k] = u[k]
                ELSE IF b[k].kind = "dict" /\ u[k].kind = "dict"
                THEN m[k].kind = "dict" /\ C12_InnerPolicy(b[k].v, u[k].v, m[k].v)
                ELSE m[k] = u[k]

\* a merge in which a key is only in base, two mappings are merged key by
\* key, and a list meets a scalar
C12_Witness ==
    /\ mg.pc = "merged"
    /\ DOMAIN mg.base = {"a", "skills"} /\ DOMAIN mg.updated = {"a"}
    /\ mg.base["a"].kind = "dict" /\ mg.updated["a"].kind = "dict"
    /\ DOMAIN mg.base["a"].v = {"b", "c"} /\ DOMAIN mg.updated["a"].v = {"c"}
    /\ mg.base["a"].v["c"].kind = "list" /\ mg.updated["a"].v["c"].kind = "scalar"
    /\ mg.merged["a"].v["b"] = mg.base["a"].v["b"]
    /\ mg.merged["a"].v["c"] = mg.updated["a"].v["c"]
    /\ mg.merged["skills"] = mg.base["skills"]

(***************************************************************************)
(* C13: the deep merge is idempotent: merge(d, d) = d and                  *)
(* merge(merge(a, b), b) = merge(a, b); merging {a: {b: 1}} with           *)
(* {a: {c: 2}} gives {a: {b: 1, c: 2}}, and merging {skills: [1]} with     *)
(* {skills: [1, 2]} gives {skills: [1, 2]}.                                *)
(***************************************************************************)
\* equality of two values, of two documents (a scalar, a list and a mapping
\* are never equal)
RECURSIVE SameDoc(_, _)
SameValue(x, y) ==
    /\ x.kind = y.kind
    /\ IF x.kind = "dict" THEN SameDoc(x.v, y.v) ELSE x.v = y.v

SameDoc(x, y) ==
    /\ DOMAIN x = DOMAIN y
    /\ \A k \in DOMAIN x : SameValue(x[k], y[k])

C13_Idempotent ==
    /\ (mg.pc # "idle" /\ SameDoc(mg.base, mg.updated)) => SameDoc(mg.merged, mg.base)
    /\ mg.pc = "again" => SameDoc(mg.again, mg.merged)
    /\ (mg.pc # "idle" /\ SameDoc(mg.base, [a |-> Dict([b |-> Scalar(1)])])
                       /\ SameDoc(mg.updated, [a |-> Dict([c |-> Scalar(2)])]))
          => SameDoc(mg.merged, [a |-> Dict([b |-> Scalar(1), c |-> Scalar(2)])])
    /\ (mg.pc # "idle" /\ SameDoc(mg.base, [skills |-> List(<<1>>)])
                       /\ SameDoc(mg.updated, [skills |-> List(<<1, 2>>)]))
          => SameDoc(mg.merged, [skills |-> List(<<1, 2>>)])

\* the second merge of a result whose list was replaced and whose nested
\* mapping was merged
C13_Witness ==
    /\ mg.pc = "again"
    /\ SameDoc(mg.base, [a |-> Dict([b |-> Scalar(1)]), skills |-> List(<<1>>)])
    /\ SameDoc(mg.updated, [a |-> Dict([c |-> Scalar(2)]), skills |-> List(<<1, 2>>)])
    /\ SameDoc(mg.again, [a |-> Dict([b |-> Scalar(1), c |-> Scalar(2)]),
                          skills |-> List(<<1, 2>>)])

(***************************************************************************)
(* C14: a run returns, together with the merged document, the list of the  *)
(* fixes actually applied: every fix whose stage succeeded and no fix      *)
(* whose stage failed.  For one dependent fix that rewrites the summary    *)
(* and two independent fixes, of which one adds a skill and one fails, the *)
(* document has the new summary and the added skill and the failing fix is *)
(* absent from the list.  (Claim as stated.)                               *)
(***************************************************************************)
\* the fixes whose stage succeeded, in list order
C14_Succeeded == SelectSeq([i \in 1..Len(fx.fixes) |-> i], LAMBDA i : fixState[i] = "done")

\* line 258 returns current_resume: the list is looked for in what is returned
C14_AppliedFixesReported ==
    fx.pc = "done"
    => /\ "applied_fixes" \in DOMAIN fx.returned
       /\ fx.returned["applied_fixes"] = C14_Succeeded

\* the document of the scenario is the expected one
C14_ScenarioDocument ==
    (/\ fx.pc = "done"
     /\ fx.fixes = <<[type |-> "content", edit |-> "summary"],
                     [type |-> "grammar", edit |-> "skill"],
                     [type |-> "keyword", edit |-> "raise"]>>)
    => /\ fx.returned = [summary |-> Scalar(2), skills |-> List(<<1, 2>>),
                         contact |-> Dict([email |-> Scalar(1)])]
       /\ DOMAIN fx.returned = DOMAIN Resume

(***************************************************************************)
(* C15: with a ttl configured, a get of a key whose entry was set more     *)
(* than ttl ago returns None, removes the entry and increments misses, not *)
(* hits, although the entry was never deleted.                             *)
(***************************************************************************)
C15_ExpiredGet ==
    \A t \in Threads :
        (/\ TTL # 0
         /\ frame[t].op = "get" /\ frame'[t].op = "none"
         /\ frame[t].key \in CacheKeys(cache)
         /\ now - Entry(cache, frame[t].key).ts > TTL)
        => /\ ret' = [op |-> "get", key |-> frame[t].key, val |-> None, expired |-> TRUE]
           /\ frame[t].key \notin CacheKeys(cache')
           /\ Len(cache') = Len(cache) - 1
           /\ misses' = misses + 1
           /\ hits' = hits

C15_ExpiredGetIsMiss == [][C15_ExpiredGet]_vars

\* a get has just found its entry expired, after an earlier get that hit
C15_Witness ==
    /\ ret.op = "get" /\ ret.expired /\ ret.val = None
    /\ ret.key \notin CacheKeys(cache)
    /\ misses = 1 /\ hits = 1

(***************************************************************************)
(* C16: every get increments exactly one of hits and misses by one, set    *)
(* and delete leave both unchanged, clear resets both to zero: hits +      *)
(* misses is always the number of get calls since the last clear.          *)
(***************************************************************************)
C16_CounterSteps ==
    IF \E t \in Threads : frame[t].op = "get" /\ frame'[t].op = "none"
    THEN \/ hits' = hits + 1 /\ misses' = misses
         \/ hits' = hits /\ misses' = misses + 1
    ELSE IF \E t \in Threads : frame[t].op = "clear" /\ frame'[t].op = "none"
    THEN hits' = 0 /\ misses' = 0
    ELSE hits' = hits /\ misses' = misses

C16_Counters == [](hits + misses = gets) /\ [][C16_CounterSteps]_vars

\* a get that hit and a get that missed have been counted
C16_Witness ==
    /\ ret.op = "get"
    /\ hits = 1 /\ misses = 1 /\ gets = 2
    /\ cache # <<>>

(***************************************************************************)
(* C17: concurrent get, set, delete and clear calls of several threads on  *)
(* one instance behave as if executed one at a time: each runs entirely    *)
(* under the instance's lock.  Calls on two different instances never      *)
(* block each other.                                                       *)
(***************************************************************************)
C17_Inside(t) == frame[t].op \in {"get", "set", "delete", "clear"}

\* the only thread inside a call on an instance is the holder of its lock
C17_MutualExclusion ==
    /\ \A t \in Threads : C17_Inside(t) <=> lock = t
    /\ \A t \in Threads : frame[t].op = "other" <=> lock2 = t
    /\ ret.op # "KeyError"

\* whether a thread can enter depends on the lock of that instance alone
C17_NoBlockingAcrossInstances ==
    \A t \in Threads :
        frame[t].op = "none"
        => /\ lock = NoThread => ENABLED EnterSet(t, 1, 1)
           /\ lock2 = NoThread => ENABLED EnterOther(t)

\* while a thread is inside a call and does not move, the instance does not change
C17_Atomic ==
    \A t \in Threads :
        (C17_Inside(t) /\ frame'[t] = frame[t]) => UNCHANGED <<cache, hits, misses>>

C17_Serial ==
    /\ [](C17_MutualExclusion /\ C17_NoBlockingAcrossInstances)
    /\ [][C17_Atomic]_vars

\* one thread is in the middle of a set on one instance while the other
\* thread is inside a call on the other instance
C17_Witness ==
    /\ lock # NoThread /\ lock2 # NoThread /\ lock # lock2
    /\ frame[lock].op = "set" /\ frame[lock].pc = 2

(***************************************************************************)
(* C18: once a non-forced process call for a key has completed, every      *)
(* later non-forced call for that key returns that same result at once,    *)
(* without invoking the processor, until clear_cache removes the result or *)
(* a forced call replaces it.                                              *)
(***************************************************************************)
\* the result of a non-forced call stays cached until cleared or replaced by
\* the result of a forced call
C18_Stays ==
    \A k \in DKeys :
        (/\ results_cache[k] # 0
         /\ ~call[results_cache[k]].force
         /\ results_cache'[k] # results_cache[k])
        => \/ results_cache'[k] = 0
           \/ call[results_cache'[k]].force /\ call[results_cache'[k]].key = k

\* a non-forced call that finds a result cached returns it and starts nothing
C18_Served ==
    (/\ ncalls' = ncalls + 1
     /\ ~call'[ncalls'].force
     /\ results_cache[call'[ncalls'].key] # 0)
    => /\ call'[ncalls'].pc = "returned"
       /\ call'[ncalls'].result = results_cache[call'[ncalls'].key]
       /\ UNCHANGED <<task, thread, pending_tasks, results_cache>>

C18_CachedResultServed == [][C18_Stays /\ C18_Served]_vars

\* the third call, not forced, was served the result of the first, not forced
C18_Witness ==
    /\ call[1].pc = "returned" /\ ~call[1].force /\ call[1].result = 1
    /\ call[3].pc = "returned" /\ ~call[3].force /\ call[3].key = call[1].key
    /\ call[3].result = 1
    /\ thread[3] = "none"

(***************************************************************************)
(* C19: a process call with force = true always invokes the processor      *)
(* itself, without the debounce delay, and returns and caches the result   *)
(* of that invocation: never a result cached before, nor the result of a   *)
(* computation that was already in flight.                                 *)
(***************************************************************************)
\* a forced call starts its own execution in the step in which it is made
C19_RunsAtOnce ==
    (ncalls' = ncalls + 1 /\ call'[ncalls'].force)
    => /\ thread'[ncalls'] = "running"
       /\ task'[ncalls'] = "none"
       /\ call'[ncalls'].pc = "forcerun"

\* a forced call returns in the step that caches the result of its own execution
C19_ReturnsOwn ==
    \A c \in CallIds :
        (call[c].force /\ call[c].pc # "returned" /\ call'[c].pc = "returned")
        => /\ thread[c] = "ok"
           /\ call'[c].result = c
           /\ results_cache'[call[c].key] = c

C19_ForceIsFresh ==
    /\ [][C19_RunsAtOnce /\ C19_ReturnsOwn]_vars
    /\ [](\A c \in CallIds : (call[c].force /\ call[c].pc = "returned") => call[c].result = c)

\* a forced call for a key for which an earlier call had returned its result
\* has returned and cached the result of its own execution
C19_Witness ==
    \E c \in CallIds, d \in CallIds :
        /\ call[c].force /\ call[c].pc = "returned" /\ call[c].result = c
        /\ d < c /\ call[d].key = call[c].key /\ call[d].pc = "returned"
        /\ call[d].result = d
        /\ results_cache[call[c].key] = c

(***************************************************************************)
(* C20: when the processor of a debounced task raises, the marker of the   *)
(* key is removed from pending_tasks, the error reaches every caller that  *)
(* awaits the task, and no result is stored for the key; when it succeeds, *)
(* the result is cached and the marker removed.  (Claim as stated.)        *)
(***************************************************************************)
C20_Completion ==
    \A t \in CallIds :
        /\ task[t] \in {"done", "failed"} => pending_tasks[call[t].key] # t
        /\ task[t] = "failed"
              => /\ results_cache[call[t].key] # t
                 /\ \A c \in CallIds : call[c].awaits = t => call[c].pc \in {"await", "raised"}
        /\ task[t] = "done"
              => \A c \in CallIds : call[c].awaits = t => call[c].pc \in {"await", "returned"}

\* the rest of the claim, without the removal of the marker after a failure
C20_ExceptMarker ==
    \A t \in CallIds :
        /\ task[t] = "done" => pending_tasks[call[t].key] # t
        /\ task[t] = "failed"
              => /\ results_cache[call[t].key] # t
                 /\ \A c \in CallIds : call[c].awaits = t => call[c].pc \in {"await", "raised"}
        /\ task[t] = "done"
              => \A c \in CallIds : call[c].awaits = t => call[c].pc \in {"await", "returned"}


(***************************************************************************)
(* C21: on rejection the rate limiter reports                              *)
(* retry_after = ceil(window_seconds - (now - oldest_timestamp)) + 1,      *)
(* oldest_timestamp being the head of the client's pruned queue, for every *)
(* value of now, and the value lies between 1 and window_seconds + 1.      *)
(* Line 71 truncates with int() where the claim rounds up: the two differ  *)
(* whenever the age of the oldest timestamp is not a whole number of       *)
(* seconds.  Amended: retry_after = floor(window_seconds - age) + 1.       *)
(***************************************************************************)
\* ceil(n / d) and floor(n / d) for d > 0
CeilDiv(n, d) == -((-n) \div d)

FloorDiv(n, d) == n \div d

\* the wrapper has just rejected a request (status 429)
C21_Rejected == outcome.client # "" /\ ~outcome.admitted

\* window_seconds - (now - oldest_timestamp), in ticks, at a rejection
C21_Remaining == WindowTicks - (now - Head(request_history[outcome.client]))

\* C21 as stated: the reported value is the ceiling plus one
C21_RetryAfterCeil ==
    C21_Rejected =>
        /\ outcome.retry_after = CeilDiv(C21_Remaining, TicksPerSecond) + 1
        /\ outcome.retry_after \in 1..(WindowSeconds + 1)

\* C21 amended: the reported value is the floor plus one, within
\* 1 .. window_seconds + 1
C21_RetryAfterFloor ==
    C21_Rejected =>
        /\ request_history[outcome.client] # <<>>
        /\ outcome.retry_after = FloorDiv(C21_Remaining, TicksPerSecond) + 1
        /\ outcome.retry_after \in 1..(WindowSeconds + 1)

\* a request has been rejected while its oldest timestamp was a non-integer
\* number of seconds old
C21_Witness ==
    /\ C21_Rejected
    /\ (now - Head(request_history[outcome.client])) % TicksPerSecond # 0
    /\ outcome.retry_after = 1

(***************************************************************************)
(* C22: selecting a cache by a name that is not registered (in the cached  *)
(* decorator, in invalidate_cache) is reported to the caller as an error;  *)
(* it never reads, writes or deletes in some other cache instance.         *)
(* The if/elif chains of lines 245-254 and 288-297 end in a bare else that *)
(* selects the general cache.                                              *)
(***************************************************************************)
C22_UnknownNameIsError ==
    /\ \A t \in Threads :
          wr[t].pc # "idle" /\ wr[t].type \notin CacheNames => wr[t].cache = "none"
    /\ mret.op \in {"cached", "invalidate"} /\ mret.type \notin CacheNames =>
          mret.cache = "none" /\ mret.status # 200

\* what does hold: a registered name selects the instance of that name
C22_RegisteredNameSelectsItself ==
    /\ \A t \in Threads :
          wr[t].pc # "idle" /\ wr[t].type \in CacheNames => wr[t].cache = wr[t].type
    /\ mret.op \in {"cached", "invalidate"} /\ mret.type \in CacheNames =>
          mret.cache = mret.type

(***************************************************************************)
(* C23: the cache clear operation with no name clears all five caches;     *)
(* with a registered name it clears exactly that cache and leaves the      *)
(* entries and counters of every other cache unchanged; with an unknown    *)
(* name it yields a client-error outcome (HTTP 4xx) and leaves every cache *)
(* unchanged.                                                              *)
(***************************************************************************)
C23_Unknown(cache_type) == Truthy(cache_type) /\ cache_type \notin CacheNames

\* a step of the request clears one cache of those it was asked to clear and
\* nothing else; the success response comes when all of them are cleared; a
\* rejected request changes no cache
C23_Steps ==
    /\ clr.pc = "clearing" /\ clr'.pc = "clearing" /\ clr'.todo # clr.todo =>
          /\ mc'[Head(clr.todo)] = EmptyLru
          /\ \A n \in CacheNames \ {Head(clr.todo)} : mc'[n] = mc[n]
          /\ Head(clr.todo) \in
                (IF Truthy(clr.type) THEN {clr.type} ELSE CacheNames)
    /\ clr.pc = "clearing" /\ clr'.pc = "idle" =>
          /\ mret'.op = "clear" /\ mret'.status = 200
          /\ clr.cleared = (IF Truthy(clr.type) THEN {clr.type} ELSE CacheNames)
          /\ mc' = mc
    /\ mret'.op = "clear" /\ C23_Unknown(mret'.type) => mc' = mc

\* the outcome of a request with an unknown name is a 4xx
C23_UnknownIsClientError ==
    mret.op = "clear" /\ C23_Unknown(mret.type) => mret.status \in 400..499

\* C23 as stated
C23_ClearCache == []C23_UnknownIsClientError /\ [][C23_Steps]_vars

\* what does hold: C23 without the status of the unknown name
C23_ExceptStatus == [][C23_Steps]_vars

(***************************************************************************)
(* C27: for a single cache key the lookup-compute-store sequence of a      *)
(* memoized call is atomic: two concurrent calls with the same arguments   *)
(* never both miss and both execute the wrapped function.                  *)
(* The wrapper holds the instance lock inside cache.get and inside         *)
(* cache.set only, not across lines 260-266.                               *)
(***************************************************************************)
C27_AtomicMemo ==
    \A t1, t2 \in Threads :
        /\ t1 # t2
        /\ wr[t1].pc = "computed" /\ wr[t2].pc = "computed"
        /\ wr[t1].cache = wr[t2].cache
        => wr[t1].key # wr[t2].key

(***************************************************************************)
(* C24: process_in_batches splits items into consecutive chunks of         *)
(* batch_size items (the last may be shorter, none is empty) whose         *)
(* concatenation is the input list, invokes the processor exactly once per *)
(* chunk in chunk order, and returns the outputs of the chunks that did    *)
(* not raise, in chunk order; a raising chunk is skipped and every later   *)
(* chunk is still processed.                                               *)
(***************************************************************************)
RECURSIVE Flatten(_)
Flatten(ss) == IF ss = <<>> THEN <<>> ELSE Head(ss) \o Flatten(Tail(ss))

\* the chunks: full but possibly the last, none empty, together the input
C24_Partition ==
    /\ \A j \in 1..Len(pib.batches) :
          /\ pib.batches[j] # <<>>
          /\ Len(pib.batches[j]) <= pib.size
          /\ j < Len(pib.batches) => Len(pib.batches[j]) = pib.size
    /\ Flatten(pib.batches) = pib.items

\* the processor has been called with the first chunks, each once, in order
C24_CallsInOrder ==
    /\ Len(pib.calls) <= Len(pib.batches)
    /\ pib.calls = SubSeq(pib.batches, 1, Len(pib.calls))

\* at the return every chunk has been processed and the outputs of those that
\* did not raise are returned in chunk order
C24_Returned ==
    pib.pc = "returned" =>
        /\ pib.calls = pib.batches
        /\ pib.results =
              [j \in 1..(Len(pib.batches) - Cardinality(pib.failed)) |->
                  ChunkResult(pib.batches[
                      SelectSeq([x \in 1..Len(pib.batches) |-> x],
                                LAMBDA x : x \notin pib.failed)[j]])]

C24_Chunked == C24_Partition /\ C24_CallsInOrder /\ C24_Returned

\* a call has returned whose last chunk was shorter than the others and
\* whose first chunk raised
C24_Witness ==
    /\ pib.pc = "returned"
    /\ Len(pib.batches) >= 2
    /\ Len(pib.batches[Len(pib.batches)]) < pib.size
    /\ 1 \in pib.failed
    /\ pib.results # <<>>

(***************************************************************************)
(* C25: during process_batch in parallel mode the number of items whose    *)
(* processor is executing at the same time never exceeds max_workers, and  *)
(* every submitted item is eventually executed.                            *)
(***************************************************************************)
C25_Executing == {i \in Items : item[i] = "running"}

C25_Bounded == batch.parallel => Cardinality(C25_Executing) <= MaxWorkers

C25_BoundedPool ==
    /\ []C25_Bounded
    /\ \A i \in Items :
          (item[i] = "queued") ~> (item[i] \in {"running", "ok", "raised"})

\* every worker is busy while a submitted item waits in the queue
C25_Witness ==
    /\ batch.pc = "gather"
    /\ Cardinality(C25_Executing) = MaxWorkers
    /\ \E i \in Items : item[i] = "queued"

(***************************************************************************)
(* C26: add_request returns to each caller the result the batch processor  *)
(* produced for that caller's own request (the element at the request's    *)
(* index in the processed batch); each request's result slot is set        *)
(* exactly once and is what its submitter receives.                        *)
(* Lines 393-395 search self.pending_requests, which line 377 emptied of   *)
(* the batch before it was processed.                                      *)
(***************************************************************************)
C26_OwnResult ==
    \A c \in AiCalls :
        aiReq[c].pc = "done" /\ aiReq[c].sets > 0 =>
            /\ aiReq[c].sets = 1
            /\ aiReq[c].result = ResultFor(c)
            /\ aiReq[c].returned = aiReq[c].result

\* what does hold: a slot is set at most once, to the result of its own
\* request, and no call ever returns anything but None
C26_SlotsOnly ==
    \A c \in AiCalls :
        /\ aiReq[c].sets <= 1
        /\ aiReq[c].result \in {None, ResultFor(c)}
        /\ aiReq[c].returned = None

(***************************************************************************)
(* C28: a process call (forced or not) that arrives for a key whose        *)
(* scheduled task has passed the debounce delay and started executing the  *)
(* processor does not cancel it: the started computation runs to           *)
(* completion or failure, its awaiting callers receive its outcome, and    *)
(* only tasks still waiting in the debounce delay are ever cancelled.      *)
(* Line 160 cancels whatever task is registered for the key.               *)
(***************************************************************************)
\* a task that has started the processor is not cancelled, and the call that
\* awaits it does not end in CancelledError
C28_Step ==
    /\ \A t \in CallIds : task[t] = "running" => task'[t] # "cancelled"
    /\ \A c \in CallIds :
          call'[c].pc = "cancelled" /\ call[c].pc = "await" =>
              thread[call[c].awaits] = "none"

C28_StartedNotCancelled == [][C28_Step]_vars

\* what does hold: the processor started in a worker thread runs on to its
\* return or its exception whatever happens to the task that started it
C28_ThreadRunsOn ==
    [][\A c \in CallIds : thread[c] = "running" =>
            thread'[c] \in {"running", "ok", "raised"}]_vars

(***************************************************************************)
(* C29: a successful get moves the entry to the most-recently-used end:    *)
(* after a hit on key k in a full cache, k is evicted only after every     *)
(* other entry that was present at the time of the hit and not touched     *)
(* since has been evicted; a miss or an expired get changes no other       *)
(* entry's recency position.                                               *)
(***************************************************************************)
\* the stored keys in the order of their latest set or hit
C29_ByRecency == SelectSeq(touched, LAMBDA k : k \in CacheKeys(lru.cache))

\* the OrderedDict keeps the entries in that order
C29_OrderIsRecency == KeyOrder(lru.cache) = C29_ByRecency

\* an eviction removes the entry touched least recently: every other entry
\* present was set or hit after the evicted one
C29_EvictsLeastRecent ==
    lruRet'.evicted # 0 =>
        /\ lruRet'.evicted = Head(C29_ByRecency)
        /\ lruRet'.evicted \notin CacheKeys(lru'.cache) \ {lruRet'.key}

\* a hit puts the entry last and keeps the order of the others
C29_HitMovesLast ==
    lruRet'.op = "get" /\ lruRet'.val # None =>
        /\ KeyOrder(lru'.cache) =
              Append(KeyOrder(DelKey(lru.cache, lruRet'.key)), lruRet'.key)
        /\ lru'.hits = lru.hits + 1

\* a miss or an expired get leaves the other entries where they are
C29_MissKeepsOrder ==
    lruRet'.op \in {"get", "expired"} /\ lruRet'.val = None =>
        /\ KeyOrder(lru'.cache) = KeyOrder(DelKey(lru.cache, lruRet'.key))
        /\ touched' = SelectSeq(touched, LAMBDA x : x # lruRet'.key)

C29_GetMovesToEnd ==
    /\ []C29_OrderIsRecency
    /\ [][C29_EvictsLeastRecent /\ C29_HitMovesLast /\ C29_MissKeepsOrder]_vars

\* a hit in a full cache has just put an entry behind one that was set later
C29_Witness ==
    /\ Len(lru.cache) = MaxSize
    /\ lruRet.op = "get" /\ lruRet.val # None
    /\ lru.cache[Len(lru.cache)].key = lruRet.key
    /\ lru.cache[1].ts > lru.cache[Len(lru.cache)].ts

(***************************************************************************)
(* C30: when two independent fixes both succeed and modify disjoint        *)
(* top-level fields of the post-dependent document, the document returned  *)
(* by process_fixes_parallel contains both modifications, whatever the     *)
(* order of the two fixes in the input list.                               *)
(* Each fix returns a whole document, and the merge takes every top-level  *)
(* scalar or list of the later document, changed by that fix or not.       *)
(***************************************************************************)
\* the top-level field an edit modifies
C30_Field(edit) ==
    CASE edit = "summary" -> "summary"
      [] edit = "skill" -> "skills"
      [] OTHER -> "contact"

\* the run had exactly the independent fixes i and j, on different fields,
\* and both succeeded
C30_TwoDisjoint(i, j) ==
    /\ i # j
    /\ Independent(i) /\ Independent(j)
    /\ Len(IndependentIds) = 2
    /\ fixState[i] = "done" /\ fixState[j] = "done"
    /\ fx.fixes[i].edit # fx.fixes[j].edit

C30_BothModificationsKept ==
    fx.pc = "done" =>
        \A i \in FixIds, j \in FixIds :
            C30_TwoDisjoint(i, j) =>
                /\ fx.returned[C30_Field(fx.fixes[i].edit)] =
                      fixOut[i][C30_Field(fx.fixes[i].edit)]
                /\ fx.returned[C30_Field(fx.fixes[j].edit)] =
                      fixOut[j][C30_Field(fx.fixes[j].edit)]

\* what does hold: the modification of the later of the two is kept
C30_LaterModificationKept ==
    fx.pc = "done" =>
        \A i \in FixIds, j \in FixIds :
            C30_TwoDisjoint(i, j) /\ i < j =>
                fx.returned[C30_Field(fx.fixes[j].edit)] =
                    fixOut[j][C30_Field(fx.fixes[j].edit)]

(***************************************************************************)
(* C31: the document returned by process_fixes_parallel is determined by   *)
(* the input document and the ordered list of fixes alone: the independent *)
(* results are merged in the order of the fixes in the input list, so the  *)
(* result does not depend on the order in which the independent fixes      *)
(* complete; and merging never raises.                                     *)
(***************************************************************************)
\* the document after the dependent fixes of the list, taken in list order
RECURSIVE C31_AfterDependent(_, _)
C31_AfterDependent(d, fixes) ==
    IF fixes = <<>> THEN d
    ELSE C31_AfterDependent(IF IsIndependent(Head(fixes).type) THEN d
                            ELSE ApplyEdit(d, Head(fixes).edit), Tail(fixes))

\* the merge of the independent fixes of the list, taken in list order, each
\* applied to the document `start` the dependent fixes left
RECURSIVE C31_MergeInListOrder(_, _, _)
C31_MergeInListOrder(cur, start, fixes) ==
    IF fixes = <<>> THEN cur
    ELSE C31_MergeInListOrder(
             IF IsIndependent(Head(fixes).type) /\ Head(fixes).edit # "raise"
             THEN MergeResumeChanges(cur, ApplyEdit(start, Head(fixes).edit))
             ELSE cur,
             start, Tail(fixes))

C31_Expected(fixes) ==
    LET start == C31_AfterDependent(Resume, fixes)
    IN C31_MergeInListOrder(start, start, fixes)

C31_MergeStep ==
    fx.pc = "gather" /\ fx'.pc # "gather"
        => fx'.pc = "done" /\ fx'.returned = C31_Expected(fx.fixes)

C31_DeterminedByFixList ==
    /\ [](fx.pc = "done" => fx.returned = C31_Expected(fx.fixes))
    /\ [][C31_MergeStep]_vars

\* two independent fixes that completed in the reverse of their list order,
\* merged and returned
C31_Witness ==
    /\ fx.pc = "done"
    /\ Len(fx.finished) >= 2
    /\ fx.finished[1] > fx.finished[2]
    /\ fixOut[fx.finished[1]] # fixOut[fx.finished[2]]

(***************************************************************************)
(* C32: if a client is rejected at time t with retry_after = r and sends   *)
(* no other request in between, then a request by that client to the same  *)
(* endpoint at time t + r (or later) is admitted.  (Claim as stated.)      *)
(* Between the rejection and the retry nothing touches the client's queue, *)
(* so the retry at time t2 runs lines 64-68 on the queue the rejection     *)
(* left.                                                                   *)
(***************************************************************************)
\* the times from t + r to one window after it, in ticks
C32_RetryTimes ==
    LET first == now + outcome.retry_after * TicksPerSecond
    IN first..(first + WindowTicks)

\* the decision of lines 64-68 at time t2 on the queue of the rejected client
C32_AdmittedAt(t2) ==
    Admits(Prune(request_history[outcome.client], t2, WindowTicks),
           MaxRequests[outcome.endpoint])

C32_RetryAfterSuffices ==
    (outcome.client # "" /\ ~outcome.admitted)
        => \A t2 \in C32_RetryTimes : C32_AdmittedAt(t2)

\* what does hold: the retry is admitted when every timestamp of the queue was
\* appended under the limit of the endpoint that rejected
C32_RetrySufficesUnderOneLimit ==
    (outcome.client # "" /\ ~outcome.admitted
        /\ SingleLimit(outcome.client, outcome.endpoint))
        => \A t2 \in C32_RetryTimes : C32_AdmittedAt(t2)

(***************************************************************************)
(* C33: a rejected request appends no timestamp to the client's queue (the *)
(* queue changes only by pruning) and the wrapped endpoint handler is not  *)
(* invoked; an admitted request appends the current time exactly once,     *)
(* before the handler is invoked, and the queue stays in ascending         *)
(* timestamp order.                                                        *)
(***************************************************************************)
\* the queues that a prune can make of h: h without some of its first entries
C33_Suffixes(h) == {SubSeq(h, k + 1, Len(h)) : k \in 0..Len(h)}

C33_Ascending(h) == \A i \in 1..Len(h), j \in 1..Len(h) : i < j => h[i] <= h[j]

\* a step of the wrapper for the request in slot r
C33_WrapperStep ==
    \A r \in Slots :
        (req[r].pc = "ready" /\ req'[r].pc # "ready") =>
            LET c == req[r].client
                before == History(request_history, c)
                after == request_history'[c]
            IN /\ \A x \in DOMAIN request_history \ {c} :
                      request_history'[x] = request_history[x]
               /\ IF outcome'.admitted
                  THEN /\ \E kept \in C33_Suffixes(before) : after = Append(kept, now)
                       /\ req'[r].pc = "handler"
                  ELSE /\ after \in C33_Suffixes(before)
                       /\ req'[r].pc = "idle"

\* the handler runs only for a request whose wrapper has appended
C33_HandlerStep ==
    \A r \in Slots :
        req'[r].pc = "handler" /\ req[r].pc # "handler"
            => /\ req[r].pc = "ready" /\ outcome'.admitted
               /\ request_history'[req[r].client] # <<>>
               /\ request_history'[req[r].client][Len(request_history'[req[r].client])] = now

C33_AppendOnlyOnAdmission ==
    /\ [](\A c \in DOMAIN request_history : C33_Ascending(request_history[c]))
    /\ [][C33_WrapperStep /\ C33_HandlerStep]_vars

\* an admitted request whose wrapper pruned the queue and appended to what was
\* left, and whose handler is running
C33_Witness ==
    /\ outcome.admitted
    /\ Len(request_history[outcome.client]) >= 2
    /\ Len(admitted[outcome.client]) > Len(request_history[outcome.client])
    /\ request_history[outcome.client][1] < now
    /\ \E r \in Slots : req[r].pc = "handler" /\ req[r].client = outcome.client

(***************************************************************************)
(* C35: all rate-limited endpoints share one timestamp queue per client    *)
(* identity: a request admitted at one endpoint is counted against that    *)
(* client's limit at every other endpoint, so an endpoint with limit m     *)
(* rejects a client who has m or more admitted requests in the window at   *)
(* any endpoints, and the shared queue can hold more than m timestamps.    *)
(***************************************************************************)
\* the wrapper of an endpoint admits exactly when the requests of the client
\* admitted in the window, at whatever endpoint, are fewer than its limit
C35_Decision ==
    \A r \in Slots :
        (req[r].pc = "ready" /\ req'[r].pc # "ready")
        => outcome'.admitted =
              (InWindow(admitted[req[r].client], now) < MaxRequests[req[r].endpoint])

\* the queue of a client holds the timestamps admitted at any endpoint that
\* were in the window when it was last pruned
C35_OneQueue ==
    \A c \in DOMAIN request_history :
        /\ c \in Clients
        /\ Len(request_history[c]) <= MaxLimit
        /\ \A i \in 1..Len(request_history[c]) :
              \E j \in 1..Len(admitted[c]) : admitted[c][j] = request_history[c][i]

C35_SharedAcrossEndpoints == []C35_OneQueue /\ [][C35_Decision]_vars

\* an endpoint has rejected a client whose queue holds more timestamps than the
\* endpoint's limit, all admitted in the window
C35_Witness ==
    /\ outcome.client # "" /\ ~outcome.admitted
    /\ Len(request_history[outcome.client]) > MaxRequests[outcome.endpoint]
    /\ InWindow(request_history[outcome.client], now)
          = Len(request_history[outcome.client])

(***************************************************************************)
(* C34: cleanup_old_entries(max_age_seconds) drops from every client's     *)
(* queue the timestamps older than now - max_age_seconds, removes from the *)
(* table exactly the clients whose queue is then empty, keeps every other  *)
(* client with its remaining timestamps, and returns the number of clients *)
(* removed; called with max_age_seconds >= window_seconds it changes no    *)
(* later admission decision.                                               *)
(***************************************************************************)
\* the step is a call of cleanup_old_entries
C34_Swept == "max_age" \in DOMAIN outcome'

\* the timestamps of client c that are not older than the cutoff
C34_Kept(c, cutoff) == SelectSeq(request_history[c], LAMBDA ts : ts >= cutoff)

\* the decision of lines 64-68 for client c at endpoint e at time t2 on table h
C34_AdmittedAt(h, c, e, t2) ==
    Admits(Prune(History(h, c), t2, WindowTicks), MaxRequests[e])

C34_CleanupStep ==
    C34_Swept =>
        LET cutoff == now - outcome'.max_age * TicksPerSecond
            emptied == {c \in DOMAIN request_history : C34_Kept(c, cutoff) = <<>>}
        IN /\ DOMAIN request_history' = DOMAIN request_history \ emptied
           /\ \A c \in DOMAIN request_history' :
                 request_history'[c] = C34_Kept(c, cutoff)
           /\ outcome'.removed = Cardinality(emptied)

C34_DecisionsKept ==
    (C34_Swept /\ outcome'.max_age >= WindowSeconds) =>
        \A c \in Clients, e \in Endpoints, t2 \in now..(RateMaxTime + WindowTicks + 1) :
            C34_AdmittedAt(request_history', c, e, t2)
                = C34_AdmittedAt(request_history, c, e, t2)

C34_Cleanup == [][C34_CleanupStep /\ C34_DecisionsKept]_vars

\* a sweep with max_age_seconds >= window_seconds that removed one client and
\* kept another with a shortened queue
C34_Witness ==
    /\ "max_age" \in DOMAIN outcome
    /\ outcome.max_age >= WindowSeconds
    /\ outcome.removed = 1
    /\ outcome.trimmed # {}

\* a sweep with a smaller max_age_seconds can change a later decision
C34_DecisionsKeptAnyAge ==
    [][C34_Swept =>
        \A c \in Clients, e \in Endpoints, t2 \in now..(RateMaxTime + WindowTicks + 1) :
            C34_AdmittedAt(request_history', c, e, t2)
                = C34_AdmittedAt(request_history, c, e, t2)]_vars

(***************************************************************************)
(* C36: every request submitted through BatchAIProcessor.add_request is    *)
(* eventually passed to the batch processor, including a request that is   *)
(* added (or whose delay ends) while another batch is being processed and  *)
(* after which no further request arrives.  (Claim as stated.)             *)
(* When every add_request call made so far has returned, nothing is left   *)
(* to pass a request on unless a further request arrives: in such a state  *)
(* every submitted request must have been in a batch.                      *)
(***************************************************************************)
C36_Quiescent == \A c \in AiCalls : aiReq[c].pc \in {"new", "done"}

C36_EveryRequestProcessed ==
    C36_Quiescent => \A c \in AiCalls : aiReq[c].pc = "done" => aiReq[c].batches >= 1

\* what does hold: a submitted request is in the pending list or has been
\* passed to the processor, and a call that finds no batch in progress passes
\* every pending request on
C36_PendingOrPassed ==
    \A c \in AiCalls :
        aiReq[c].pc # "new"
            => \/ \E i \in 1..Len(pending_requests) : pending_requests[i] = c
               \/ aiReq[c].batches >= 1

(***************************************************************************)
(* C37: in BatchAIProcessor at most one batch is being processed at any    *)
(* time (the processing flag is a mutual exclusion), no request is         *)
(* included in more than one batch, and the processing flag is reset to    *)
(* false after the batch finishes whether the processor succeeds or        *)
(* raises.                                                                 *)
(***************************************************************************)
C37_InProcessor == {c \in AiCalls : aiReq[c].pc = "processing"}

C37_OneBatch ==
    /\ Cardinality(C37_InProcessor) <= 1
    /\ processing <=> C37_InProcessor # {}
    /\ \A c \in AiCalls : aiReq[c].batches <= 1
    /\ \A c \in C37_InProcessor, i \in 1..Len(pending_requests) :
          \A j \in 1..Len(aiReq[c].batch) : aiReq[c].batch[j] # pending_requests[i]

\* the processor returns or raises: the flag is down in the next state
C37_Reset ==
    \A c \in AiCalls :
        aiReq[c].pc = "processing" /\ aiReq'[c].pc # "processing"
            => processing /\ ~processing' /\ aiReq'[c].pc = "done"

C37_MutualExclusion == []C37_OneBatch /\ [][C37_Reset]_vars

\* a batch of two requests is with the processor while a third request, whose
\* delay ended meanwhile, has returned and is still pending
C37_Witness ==
    /\ processing
    /\ \E c \in C37_InProcessor : Len(aiReq[c].batch) >= 2
    /\ \E c \in AiCalls :
          /\ aiReq[c].pc = "done"
          /\ \E i \in 1..Len(pending_requests) : pending_requests[i] = c

(***************************************************************************)
(* C38: BatchProcessor.process_batch returns the results of the            *)
(* non-failing items in the order of the items in the input list, whatever *)
(* order the parallel workers finish in; for a deterministic processor,    *)
(* parallel mode and sequential mode return the same list.                 *)
(***************************************************************************)
\* the list is in the order of the items: the results are those of increasing
\* positions of the input list
C38_InInputOrder(results) ==
    \A i \in 1..Len(results), j \in 1..Len(results) : i < j => results[i] < results[j]

\* the results are those of the items that did not fail, each once
C38_OfNonFailing(results, n, fails) ==
    /\ {results[i] : i \in 1..Len(results)} = {Outcome(k, fails).val : k \in (1..n) \ fails}
    /\ Len(results) = n - Cardinality(fails)

\* the list the loop of lines 72-77 builds for the items i..n
RECURSIVE C38_SequentialList(_, _, _)
C38_SequentialList(i, n, fails) ==
    IF i > n THEN <<>>
    ELSE (IF i \in fails THEN <<>> ELSE <<Outcome(i, fails).val>>)
             \o C38_SequentialList(i + 1, n, fails)

C39_TasksUntouched ==
    pending_tasks' = pending_tasks /\ task' = task /\ thread' = thread /\ call' = call

\* clear_cache(key) with a str key
C39_OnlyThatKey(key) ==
    /\ \A k \in DKeys : results_cache'[k] = IF k = key THEN 0 ELSE results_cache[k]
    /\ C39_TasksUntouched

\* clear_cache() and clear_cache(None)
C39_AllKeys ==
    /\ \A k \in DKeys : results_cache'[k] = 0
    /\ C39_TasksUntouched

C39_ClearStep ==
    \A key \in ClearArgs :
        ClearCache(key) => IF key = "None" THEN C39_AllKeys ELSE C39_OnlyThatKey(key)

\* a task in flight caches its result when its processor has returned
C39_TaskCaches ==
    \A t \in CallIds :
        (task[t] = "running" /\ thread[t] = "ok" /\ task'[t] \in {"done", "failed"})
            => results_cache'[call[t].key] = t

C39_ClearCache == [][C39_ClearStep /\ C39_TaskCaches]_vars

\* what does hold: a non-empty key clears that key alone, an empty key or None
\* clears every key, and the tasks are untouched
C39_ClearStepTruthy ==
    \A key \in ClearArgs :
        ClearCache(key) => IF KeyGiven(key) THEN C39_OnlyThatKey(key) ELSE C39_AllKeys

C39_ClearCacheTruthy == [][C39_ClearStepTruthy /\ C39_TaskCaches]_vars

(***************************************************************************)
(* C40: an LRUCache entry's timestamp is set only by set: a successful get *)
(* moves the entry in recency order but does not renew its age, so an      *)
(* entry expires ttl seconds after its most recent set however often it is *)
(* read, while set on an existing key at capacity evicts nothing and       *)
(* renews both timestamp and recency position.                             *)
(***************************************************************************)
C40_Last(c) == c[Len(c)].key

\* the timestamp of a stored key changes, or a key appears, only in a set of
\* that key
C40_OnlySetStamps ==
    \A k \in Keys :
        (/\ k \in CacheKeys(lru'.cache)
         /\ \/ k \notin CacheKeys(lru.cache)
            \/ Entry(lru'.cache, k).ts # Entry(lru.cache, k).ts)
        => lruRet'.op = "set" /\ lruRet'.key = k

\* a get of a stored key: a hit up to ttl after the set that stamped the entry,
\* with the entry moved last and its timestamp kept; a miss and a removal later
C40_GetKeepsAge ==
    \A k \in CacheKeys(lru.cache) :
        (lruRet'.op \in {"get", "expired"} /\ lruRet'.key = k) =>
            IF now - Entry(lru.cache, k).ts > TTL
            THEN lruRet'.val = None /\ k \notin CacheKeys(lru'.cache)
            ELSE /\ lruRet'.val = Entry(lru.cache, k).value
                 /\ k \in CacheKeys(lru'.cache)
                 /\ Entry(lru'.cache, k) = Entry(lru.cache, k)
                 /\ C40_Last(lru'.cache) = k

\* a set stamps the entry with the current time and moves it last; on a stored
\* key it evicts nothing, whatever the size
C40_SetRenews ==
    \A k \in Keys :
        (lruRet'.op = "set" /\ lruRet'.key = k) =>
            /\ k \in CacheKeys(lru'.cache)
            /\ Entry(lru'.cache, k).ts = now
            /\ C40_Last(lru'.cache) = k
            /\ k \in CacheKeys(lru.cache) =>
                  /\ lruRet'.evicted = 0
                  /\ CacheKeys(lru'.cache) = CacheKeys(lru.cache)
                  /\ \A k2 \in CacheKeys(lru.cache) \ {k} :
                        Entry(lru'.cache, k2) = Entry(lru.cache, k2)

C40_TimestampOnlyBySet == [][C40_OnlySetStamps /\ C40_GetKeepsAge /\ C40_SetRenews]_vars

\* in a full cache a get has hit an entry that is ttl old: the entry is last in
\* recency order with the timestamp of its set, older than that of another entry
C40_Witness ==
    /\ lruRet.op = "get" /\ lruRet.val # None
    /\ Len(lru.cache) = MaxSize
    /\ C40_Last(lru.cache) = lruRet.key
    /\ now - Entry(lru.cache, lruRet.key).ts = TTL
    /\ \E k2 \in CacheKeys(lru.cache) :
          Entry(lru.cache, k2).ts > Entry(lru.cache, lruRet.key).ts

====
